---- MODULE Spec2Model ----
(***************************************************************************)
(* Credential resolution, query authorization (identity filter) and the    *)
(* audit log of the member analytics portal (Streamlit pages over the dbt   *)
(* Semantic Layer).                                                         *)
(*                                                                          *)
(* Python strings are modelled as sequences of one-character strings, so    *)
(* that concatenation, substring tests, splitting, lower-casing, stripping  *)
(* and the URL format/parse round trip are computed as the code computes    *)
(* them.  None is the one-element sequence <<"None">>; an optional list or  *)
(* object is a sequence of length 0 (None) or 1 (the value).                *)
(***************************************************************************)
EXTENDS Integers, Sequences, FiniteSets, TLC

VARIABLES
    env,            \* process configuration: os.environ and st.secrets
    session_state,  \* st.session_state of the one browser session
    cache,          \* st.cache_data stores of the cached functions
    run,            \* observation of the last script run (requests sent, how it ended)
    call,           \* input of a function applied on its own (function specifications)
    ret             \* its result

vars == <<env, session_state, cache, run, call, ret>>

(***************************************************************************)
(* Strings                                                                 *)
(***************************************************************************)
None == <<"None">>
\* a missing value of a pandas frame (float nan): truthy, unequal to itself, and
\* written nan by str() and by an f-string
NaN == <<"nan">>
EmptyStr == <<>>
NoneObj == <<>>
Some(x) == <<x>>

\* Python truthiness of an optional string: None and "" are falsy
Falsy(s) == s = None \/ s = EmptyStr

UpperLetters ==
    <<"A", "B", "C", "D", "E", "F", "G", "H", "I", "J", "K", "L", "M",
      "N", "O", "P", "Q", "R", "S", "T", "U", "V", "W", "X", "Y", "Z">>
LowerLetters ==
    <<"a", "b", "c", "d", "e", "f", "g", "h", "i", "j", "k", "l", "m",
      "n", "o", "p", "q", "r", "s", "t", "u", "v", "w", "x", "y", "z">>
Digits == <<"0", "1", "2", "3", "4", "5", "6", "7", "8", "9">>

Range(s) == {s[i] : i \in 1..Len(s)}

\* str.lower() on one character
LowerChar(c) ==
    IF \E i \in 1..Len(UpperLetters) : UpperLetters[i] = c
    THEN LowerLetters[CHOOSE i \in 1..Len(UpperLetters) : UpperLetters[i] = c]
    ELSE c

\* str.lower()
Lower(s) == [i \in 1..Len(s) |-> LowerChar(s[i])]

\* ch in s, for one character
HasChar(ch, s) == \E i \in 1..Len(s) : s[i] = ch

\* s.find(ch) + 1 (0 when absent)
FirstIndex(ch, s) ==
    IF HasChar(ch, s)
    THEN CHOOSE i \in 1..Len(s) : s[i] = ch /\ \A j \in 1..(i - 1) : s[j] # ch
    ELSE 0

\* s.rfind(ch) + 1 (0 when absent)
LastIndex(ch, s) ==
    IF HasChar(ch, s)
    THEN CHOOSE i \in 1..Len(s) : s[i] = ch /\ \A j \in (i + 1)..Len(s) : s[j] # ch
    ELSE 0

\* s.split(ch)[-1]
AfterLast(ch, s) == SubSeq(s, LastIndex(ch, s) + 1, Len(s))

\* sub in s
IsSubstring(sub, s) ==
    \E i \in 0..(Len(s) - Len(sub)) : SubSeq(s, i + 1, i + Len(sub)) = sub

StartsWith(s, pre) == Len(pre) <= Len(s) /\ SubSeq(s, 1, Len(pre)) = pre

\* s.replace(old, new): every non-overlapping occurrence, left to right
RECURSIVE Replace(_, _, _)
Replace(s, old, new) ==
    IF Len(s) = 0 \/ Len(old) = 0 THEN s
    ELSE IF StartsWith(s, old)
         THEN new \o Replace(SubSeq(s, Len(old) + 1, Len(s)), old, new)
         ELSE <<s[1]>> \o Replace(Tail(s), old, new)

IsSpace(c) == c = " "

\* s.strip()
RECURSIVE LStrip(_)
LStrip(s) == IF Len(s) > 0 /\ IsSpace(s[1]) THEN LStrip(Tail(s)) ELSE s
RECURSIVE RStrip(_)
RStrip(s) ==
    IF Len(s) > 0 /\ IsSpace(s[Len(s)]) THEN RStrip(SubSeq(s, 1, Len(s) - 1)) ELSE s
Strip(s) == RStrip(LStrip(s))

\* s.split(ch): the pieces between the occurrences of ch
RECURSIVE Split(_, _)
Split(s, ch) ==
    IF ~HasChar(ch, s) THEN <<s>>
    ELSE <<SubSeq(s, 1, FirstIndex(ch, s) - 1)>>
         \o Split(SubSeq(s, FirstIndex(ch, s) + 1, Len(s)), ch)

\* dict.get(k, default) on a dict held as a set of <<key, value>> pairs
DictGet(d, k, default) ==
    IF \E p \in d : p[1] = k THEN (CHOOSE p \in d : p[1] = k)[2] ELSE default

\* d[k] = v
DictSet(d, k, v) == {p \in d : p[1] # k} \cup {<<k, v>>}

DictDel(d, k) == {p \in d : p[1] # k}

DictHas(d, k) == \E p \in d : p[1] = k

(***************************************************************************)
(* String literals of the source                                           *)
(***************************************************************************)
\* "techcorp.com"
DomainTechcorp ==
    <<"t", "e", "c", "h", "c", "o", "r", "p", ".", "c", "o", "m">>
\* "retailplus.com"
DomainRetailplus ==
    <<"r", "e", "t", "a", "i", "l", "p", "l", "u", "s", ".", "c", "o", "m">>
\* "manufacturingco.com"
DomainManufacturingco ==
    <<"m", "a", "n", "u", "f", "a", "c", "t", "u", "r", "i", "n", "g", "c", "o", ".", "c", "o", "m">>
\* "techcorp"
CoTechcorp ==
    <<"t", "e", "c", "h", "c", "o", "r", "p">>
\* "retailplus"
CoRetailplus ==
    <<"r", "e", "t", "a", "i", "l", "p", "l", "u", "s">>
\* "manufacturingco"
CoManufacturingco ==
    <<"m", "a", "n", "u", "f", "a", "c", "t", "u", "r", "i", "n", "g", "c", "o">>
\* "default"
CoDefault ==
    <<"d", "e", "f", "a", "u", "l", "t">>
\* "member__email"
USER_FILTER_DIMENSION ==
    <<"m", "e", "m", "b", "e", "r", "_", "_", "e", "m", "a", "i", "l">>
\* "{{ Dimension('"
FilterHead ==
    <<"{", "{", " ", "D", "i", "m", "e", "n", "s", "i", "o", "n", "(", "'">>
\* "') }} = '"
FilterMid ==
    <<"'", ")", " ", "}", "}", " ", "=", " ", "'">>
\* "'"
FilterTail ==
    <<"'">>
\* "jdbc:arrow-flight-sql://"
JdbcHead ==
    <<"j", "d", "b", "c", ":", "a", "r", "r", "o", "w", "-", "f", "l", "i", "g", "h", "t", "-", "s", "q", "l", ":", "/", "/">>
\* ":443?environmentId="
JdbcPortEnv ==
    <<":", "4", "4", "3", "?", "e", "n", "v", "i", "r", "o", "n", "m", "e", "n", "t", "I", "d", "=">>
\* "&token="
JdbcToken ==
    <<"&", "t", "o", "k", "e", "n", "=">>
\* "384973"
DefaultEnvId ==
    <<"3", "8", "4", "9", "7", "3">>
\* "semantic-layer.cloud.getdbt.com"
DefaultHost ==
    <<"s", "e", "m", "a", "n", "t", "i", "c", "-", "l", "a", "y", "e", "r", ".", "c", "l", "o", "u", "d", ".", "g", "e", "t", "d", "b", "t", ".", "c", "o", "m">>
\* "Bearer "
BearerPrefix ==
    <<"B", "e", "a", "r", "e", "r", " ">>
\* "arrow-flight-sql"
ArrowFlightSql ==
    <<"a", "r", "r", "o", "w", "-", "f", "l", "i", "g", "h", "t", "-", "s", "q", "l">>
\* "https"
Https ==
    <<"h", "t", "t", "p", "s">>
\* ":443"
Port443 ==
    <<":", "4", "4", "3">>
\* "token"
KeyToken ==
    <<"t", "o", "k", "e", "n">>

(***************************************************************************)
(* Values the model draws inputs from (roster emails, configured tokens)   *)
(***************************************************************************)
\* "al@techcorp.com"
EmailAl ==
    <<"a", "l", "@", "t", "e", "c", "h", "c", "o", "r", "p", ".", "c", "o", "m">>
\* "bo@techcorp.com"
EmailBo ==
    <<"b", "o", "@", "t", "e", "c", "h", "c", "o", "r", "p", ".", "c", "o", "m">>
\* "cy@retailplus.com"
EmailCy ==
    <<"c", "y", "@", "r", "e", "t", "a", "i", "l", "p", "l", "u", "s", ".", "c", "o", "m">>
\* an email of which EmailCy is a substring: "xcy@retailplus.com"
EmailXCy ==
    <<"x", "c", "y", "@", "r", "e", "t", "a", "i", "l", "p", "l", "u", "s", ".", "c", "o", "m">>
\* a configured domain in another letter case: "Di@TechCorp.COM"
EmailDi ==
    <<"D", "i", "@", "T", "e", "c", "h", "C", "o", "r", "p", ".", "C", "O", "M">>
\* an unknown domain: "eve@other.org"
EmailEve ==
    <<"e", "v", "e", "@", "o", "t", "h", "e", "r", ".", "o", "r", "g">>
\* no @: "nobody"
EmailNoAt ==
    <<"n", "o", "b", "o", "d", "y">>
\* two @: "m@x@manufacturingco.com"
EmailTwoAt ==
    <<"m", "@", "x", "@", "m", "a", "n", "u", "f", "a", "c", "t", "u", "r", "i", "n", "g", "c", "o", ".", "c", "o", "m">>
\* a domain that only ends in a configured one: "z@nottechcorp.com"
EmailSuffix ==
    <<"z", "@", "n", "o", "t", "t", "e", "c", "h", "c", "o", "r", "p", ".", "c", "o", "m">>
\* "dbts_techcorp_1"
TokT ==
    <<"d", "b", "t", "s", "_", "t", "e", "c", "h", "c", "o", "r", "p", "_", "1">>
\* "dbts_retail_2"
TokR ==
    <<"d", "b", "t", "s", "_", "r", "e", "t", "a", "i", "l", "_", "2">>
\* "dbts_manuf_3"
TokM ==
    <<"d", "b", "t", "s", "_", "m", "a", "n", "u", "f", "_", "3">>
\* "dbts_generic_0"
TokD ==
    <<"d", "b", "t", "s", "_", "g", "e", "n", "e", "r", "i", "c", "_", "0">>
\* "dbts_secret_9"
TokS ==
    <<"d", "b", "t", "s", "_", "s", "e", "c", "r", "e", "t", "_", "9">>
\* a token the URL query string cannot carry: "#dbts_r"
TokBad ==
    <<"#", "d", "b", "t", "s", "_", "r">>
\* whitespace only: "  "
TokBlank ==
    <<" ", " ">>
\* surrounded by whitespace: " dbts_techcorp_1 "
TokPadded ==
    <<" ", "d", "b", "t", "s", "_", "t", "e", "c", "h", "c", "o", "r", "p", "_", "1", " ">>
\* "TechCorp"
CoTechcorpMixed ==
    <<"T", "e", "c", "h", "C", "o", "r", "p">>
\* "acme"
CoUnknown ==
    <<"a", "c", "m", "e">>

\* the sequences over S of length at most n
SeqsUpTo(S, n) == UNION {[1..k -> S] : k \in 0..n}

\* a clause that is not an identity filter
OtherClause == <<"x", " ", ">", " ", "1">>

(***************************************************************************)
(* client.py: tenant resolution and credentials                            *)
(***************************************************************************)
\* a logging call: level, format string, arguments
LogEvent(level, msg, args) == [level |-> level, msg |-> msg, args |-> args]

\* os.getenv(key, default)
Getenv(e, key, default) == IF e[key] = None THEN default ELSE e[key]

keep_start == 6
keep_end == 4

_mask_token(token) ==
    IF Falsy(token) THEN EmptyStr
    ELSE IF Len(token) <= keep_start + keep_end
         THEN [i \in 1..Len(token) |-> "*"]
         ELSE SubSeq(token, 1, keep_start) \o <<"*", "*", "*">>
              \o SubSeq(token, Len(token) - keep_end + 1, Len(token))

domain_map ==
    { <<DomainTechcorp, CoTechcorp>>,
      <<DomainRetailplus, CoRetailplus>>,
      <<DomainManufacturingco, CoManufacturingco>> }

\* a faulty variant: the domain is looked up as written, without .lower()
get_company_from_email_cased(email) ==
    IF Falsy(email) \/ ~HasChar("@", email) THEN CoDefault
    ELSE DictGet(domain_map, AfterLast("@", email), CoDefault)

get_company_from_email(email) ==
    IF Falsy(email) \/ ~HasChar("@", email) THEN CoDefault
    ELSE DictGet(domain_map, Lower(AfterLast("@", email)), CoDefault)

\* a faulty variant: the per-company token is used as configured, not stripped
token_map_unstripped(e) ==
    { <<CoTechcorp, Getenv(e, "DBT_TECHCORP_TOKEN", EmptyStr)>>,
      <<CoRetailplus, Getenv(e, "DBT_RETAILPLUS_TOKEN", EmptyStr)>>,
      <<CoManufacturingco, Getenv(e, "DBT_MANUFACTURINGCO_TOKEN", EmptyStr)>> }

token_map(e) ==
    { <<CoTechcorp, Strip(Getenv(e, "DBT_TECHCORP_TOKEN", EmptyStr))>>,
      <<CoRetailplus, Strip(Getenv(e, "DBT_RETAILPLUS_TOKEN", EmptyStr))>>,
      <<CoManufacturingco, Strip(Getenv(e, "DBT_MANUFACTURINGCO_TOKEN", EmptyStr))>> }

\* token is token_map.get(company.lower(), "")
company_token_or_default(e, company, token) ==
    IF token = EmptyStr
    THEN [token |-> Strip(Getenv(e, "DBT_TOKEN", EmptyStr)),
          logs  |-> <<LogEvent("WARNING",
                        "Company-specific token not found for {company}, falling back to DBT_TOKEN",
                        <<company>>)>>]
    ELSE [token |-> token, logs |-> <<>>]

\* returns the token and the log events of the call
get_company_token(e, company) ==
    company_token_or_default(e, company, DictGet(token_map(e), Lower(company), EmptyStr))

(***************************************************************************)
(* client.py: the JDBC URL and the connection attributes parsed from it    *)
(***************************************************************************)
\* x or default, for strings
OrElse(x, default) == IF Falsy(x) THEN default ELSE x

SchemeChars == Range(UpperLetters) \cup Range(LowerLetters) \cup Range(Digits) \cup {"+", "-", "."}

\* urllib.parse.urlparse: scheme, netloc, path, query, fragment.
\* s[:s.find(ch)] and s[s.find(ch) + 1:], the whole and "" when ch is absent
BeforeFirst(ch, s) ==
    IF HasChar(ch, s) THEN SubSeq(s, 1, FirstIndex(ch, s) - 1) ELSE s

AfterFirst(ch, s) ==
    IF HasChar(ch, s) THEN SubSeq(s, FirstIndex(ch, s) + 1, Len(s)) ELSE EmptyStr

\* the URL starts with a scheme: a letter, then scheme characters, then ":"
HasScheme(url) ==
    /\ FirstIndex(":", url) > 1
    /\ url[1] \in Range(UpperLetters) \cup Range(LowerLetters)
    /\ \A i \in 1..(FirstIndex(":", url) - 1) : url[i] \in SchemeChars

\* the netloc ends before the first "/", "?" or "#" after the "//"
NetlocEnd(s) ==
    IF \A i \in 1..Len(s) : s[i] \notin {"/", "?", "#"} THEN Len(s)
    ELSE (CHOOSE i \in 1..Len(s) :
              /\ s[i] \in {"/", "?", "#"}
              /\ \A j \in 1..(i - 1) : s[j] \notin {"/", "?", "#"}) - 1

\* rest is the URL after the scheme and the netloc
urlparse_rest(scheme, netloc, rest) ==
    [scheme |-> scheme, netloc |-> netloc,
     path |-> BeforeFirst("?", BeforeFirst("#", rest)),
     query |-> AfterFirst("?", BeforeFirst("#", rest)),
     fragment |-> AfterFirst("#", rest)]

\* url is the URL after the scheme
urlparse_netloc(scheme, url) ==
    IF StartsWith(url, <<"/", "/">>)
    THEN urlparse_rest(scheme,
                       SubSeq(url, 3, 2 + NetlocEnd(SubSeq(url, 3, Len(url)))),
                       SubSeq(url, 3 + NetlocEnd(SubSeq(url, 3, Len(url))), Len(url)))
    ELSE urlparse_rest(scheme, EmptyStr, url)

urlparse(url) ==
    IF HasScheme(url)
    THEN urlparse_netloc(Lower(BeforeFirst(":", url)), AfterFirst(":", url))
    ELSE urlparse_netloc(EmptyStr, url)

\* urllib.parse.unquote of s.replace("+", " ").  Percent escapes are not
\* decoded: no modelled value holds a "%".
unquote_plus(s) == [i \in 1..Len(s) |-> IF s[i] = "+" THEN " " ELSE s[i]]

\* urllib.parse.parse_qs, as the list of (name, value) in order.  A field
\* without "=" or with an empty value is dropped (keep_blank_values=False).
\* one field "name=value"
parse_field(nv) ==
    IF ~HasChar("=", nv) \/ Len(AfterFirst("=", nv)) = 0 THEN <<>>
    ELSE << <<unquote_plus(BeforeFirst("=", nv)), unquote_plus(AfterFirst("=", nv))>> >>

RECURSIVE parse_qsl(_)
parse_qsl(pairs) ==
    IF Len(pairs) = 0 THEN <<>>
    ELSE parse_field(pairs[1]) \o parse_qsl(Tail(pairs))

\* {k.lower(): v[0] for k, v in parse_qs(query).items()}: parse_qs keeps the
\* values of a name in order and the comprehension takes the first; names
\* that collide after lower() are overwritten by the later name.
RECURSIVE lowered_params(_, _, _)
lowered_params(fields, seen, d) ==
    IF Len(fields) = 0 THEN d
    ELSE IF fields[1][1] \in seen
    THEN lowered_params(Tail(fields), seen, d)
    ELSE lowered_params(Tail(fields), seen \cup {fields[1][1]},
                        DictSet(d, Lower(fields[1][1]), fields[1][2]))

ConnAttr(host, params, auth_header) ==
    [host |-> host, params |-> params, auth_header |-> auth_header]

\* the ConnAttr of a parsed URL whose query holds the params; None without a token
connection_attributes_of(parsed, params) ==
    IF ~DictHas(params, KeyToken)
    THEN [conn |-> NoneObj,
          logs |-> <<LogEvent("ERROR",
                       "Token missing from JDBC URL; cannot create connection attributes",
                       <<>>)>>]
    ELSE [conn |-> Some(ConnAttr(
                       Replace(Replace(parsed.path, ArrowFlightSql, Https), Port443, EmptyStr),
                       DictDel(params, KeyToken),
                       BearerPrefix \o DictGet(params, KeyToken, EmptyStr))),
          logs |-> <<LogEvent("INFO",
                       "Constructed connection attributes host=%s params=%s token=%s",
                       <<Replace(Replace(parsed.path, ArrowFlightSql, Https), Port443, EmptyStr),
                         _mask_token(DictGet(params, KeyToken, EmptyStr))>>)>>]

parse_connection(parsed) ==
    connection_attributes_of(
        parsed, lowered_params(parse_qsl(Split(parsed.query, "&")), {}, {}))

\* the log events of the parse: the URL's query, token included, is logged in clear
parse_logs(parsed) ==
    << LogEvent("INFO", "Parsing JDBC URL scheme=%s netloc=%s path=%s query=%s",
                <<parsed.scheme, parsed.netloc, parsed.path, parsed.query>>),
       LogEvent("INFO", "Extracted JDBC query params keys=%s", <<>>) >>

\* the uncached body; returns the optional ConnAttr and the log events
connection_attributes_parsed(parsed) ==
    [conn |-> parse_connection(parsed).conn,
     logs |-> parse_logs(parsed) \o parse_connection(parsed).logs]

get_connection_attributes(uri) == connection_attributes_parsed(urlparse(uri))

\* the URL built from the environment for a token ("" without one): host and
\* environment id default when unset
jdbc_url_of(e, token) ==
    IF token = EmptyStr THEN EmptyStr
    ELSE JdbcHead \o OrElse(Strip(Getenv(e, "DBT_SL_HOST", EmptyStr)), DefaultHost)
         \o JdbcPortEnv \o OrElse(Strip(Getenv(e, "DBT_PROD_ENV_ID", EmptyStr)), DefaultEnvId)
         \o JdbcToken \o token

\* the token for the member's company, DBT_TOKEN without a member
token_for(e, member_email) ==
    IF ~Falsy(member_email)
    THEN get_company_token(e, get_company_from_email(member_email)).token
    ELSE Strip(Getenv(e, "DBT_TOKEN", EmptyStr))

token_logs(e, member_email, token) ==
    IF ~Falsy(member_email)
    THEN get_company_token(e, get_company_from_email(member_email)).logs \o
         <<LogEvent("INFO", "Using company-specific token company=%s email=%s token=%s",
                    <<get_company_from_email(member_email), member_email,
                      _mask_token(token)>>)>>
    ELSE <<LogEvent("INFO", "Using default token for initial connection", <<>>)>>

resolve_from_env(e, member_email, token) ==
    [url |-> jdbc_url_of(e, token),
     logs |-> token_logs(e, member_email, token) \o
         (IF token = EmptyStr
          THEN <<LogEvent("WARNING",
                     "No JDBC source available; service token missing from environment",
                     <<>>)>>
          ELSE <<LogEvent("INFO",
                     "Resolved JDBC URL from environment host=%s env_id=%s token=%s",
                     <<OrElse(Strip(Getenv(e, "DBT_SL_HOST", EmptyStr)), DefaultHost),
                       OrElse(Strip(Getenv(e, "DBT_PROD_ENV_ID", EmptyStr)), DefaultEnvId),
                       _mask_token(token)>>)>>)]

\* returns the URL ("" when no token is configured) and the log events
resolve_jdbc_url(e, member_email) ==
    IF e["JDBC_URL"] # None
    THEN [url |-> e["JDBC_URL"],
          logs |-> <<LogEvent("INFO",
                       "Resolved JDBC URL from secrets scheme=%s path=%s has_query=%s",
                       <<urlparse(e["JDBC_URL"]).scheme, urlparse(e["JDBC_URL"]).path>>)>>]
    ELSE resolve_from_env(e, member_email, token_for(e, member_email))

(***************************************************************************)
(* The identity filter and its enforcement                                 *)
(***************************************************************************)
\* f"{{{{ Dimension('member__email') }}}} = '{email}'"
member_filter(email) ==
    FilterHead \o <<"m", "e", "m", "b", "e", "r", "_", "_", "e", "m", "a", "i", "l">>
    \o FilterMid \o email \o FilterTail

\* f"{{{{ Dimension('{USER_FILTER_DIMENSION}') }}}} = '{current_member_email}'"
USER_FILTER_SQL(current_member_email) ==
    FilterHead \o USER_FILTER_DIMENSION \o FilterMid \o current_member_email \o FilterTail

WhereInput(sql) == [sql |-> sql]

\* a faulty variant: the identity clause is appended without looking for it
ensure_where_inputs_always(current_member_email, where_inputs) ==
    (IF where_inputs = NoneObj THEN <<>> ELSE where_inputs[1])
    \o <<WhereInput(USER_FILTER_SQL(current_member_email))>>

\* where_inputs is None (<<>>) or a list (<<list>>)
ensure_where_inputs(current_member_email, where_inputs) ==
    LET lst == IF where_inputs = NoneObj THEN <<>> ELSE where_inputs[1] IN
    IF ~\E i \in 1..Len(lst) : lst[i].sql = USER_FILTER_SQL(current_member_email)
    THEN Append(lst, WhereInput(USER_FILTER_SQL(current_member_email)))
    ELSE lst

\* w.get("sql") on a dict held as a record
GetSql(w) == IF "sql" \in DOMAIN w THEN w.sql ELSE None

\* a faulty variant: the identity clause is put in front of the list
ensure_where_dicts_first(current_member_email, where_dicts) ==
    LET lst == IF where_dicts = NoneObj THEN <<>> ELSE where_dicts[1] IN
    IF ~\E i \in 1..Len(lst) : GetSql(lst[i]) = USER_FILTER_SQL(current_member_email)
    THEN <<[sql |-> USER_FILTER_SQL(current_member_email)]>> \o lst
    ELSE lst

ensure_where_dicts(current_member_email, where_dicts) ==
    LET lst == IF where_dicts = NoneObj THEN <<>> ELSE where_dicts[1] IN
    IF ~\E i \in 1..Len(lst) : GetSql(lst[i]) = USER_FILTER_SQL(current_member_email)
    THEN Append(lst, [sql |-> USER_FILTER_SQL(current_member_email)])
    ELSE lst

\* The natural-language page: response.get("where") is absent or null
\* ([kind |-> "none"]), a list of clauses, or a bare string
user_filter_clause(current_member_email) ==
    FilterHead \o USER_FILTER_DIMENSION \o FilterMid \o current_member_email \o FilterTail

\* a faulty variant: the page sends the clauses the model proposed
where_clauses_given(current_member_email, raw) ==
    IF raw.kind = "none" \/ raw.v = <<>> THEN <<>>
    ELSE IF raw.kind = "list" THEN raw.v
    ELSE <<raw.v>>

\* a faulty variant: an identity clause the model proposed, for whichever email,
\* is taken as the filter
where_clauses_trusting(current_member_email, raw) ==
    LET given == IF raw.kind = "none" \/ raw.v = <<>> THEN <<>>
                 ELSE IF raw.kind = "list" THEN raw.v
                 ELSE <<raw.v>>
    IN IF ~\E i \in 1..Len(given) :
              StartsWith(given[i], FilterHead \o USER_FILTER_DIMENSION \o FilterMid)
       THEN Append(given, user_filter_clause(current_member_email))
       ELSE given

where_clauses_of(current_member_email, raw) ==
    LET given == IF raw.kind = "none" \/ raw.v = <<>> THEN <<>>
                 ELSE IF raw.kind = "list" THEN raw.v
                 ELSE <<raw.v>>
    IN IF ~\E i \in 1..Len(given) : given[i] = user_filter_clause(current_member_email)
       THEN Append(given, user_filter_clause(current_member_email))
       ELSE given

(***************************************************************************)
(* audit_logger.py                                                         *)
(* The timestamp and the session id of an entry are not modelled: no       *)
(* modelled operation reads them.                                          *)
(***************************************************************************)
AuditEntry(query_type, member_email, filters_applied, metrics, dimensions, row_count, status, error_message, page) ==
    [query_type |-> query_type, member_email |-> member_email,
     filters_applied |-> filters_applied, metrics |-> metrics,
     dimensions |-> dimensions, row_count |-> row_count, status |-> status,
     error_message |-> error_message, page |-> OrElse(page, <<"unknown">>)]

\* a faulty variant: the new entry is put in front of the log
log_query_execution_first(ss, entry) ==
    [ss EXCEPT !.audit_log = <<entry>> \o @]

\* st.session_state.audit_log.append(audit_entry)
log_query_execution(ss, entry) ==
    [ss EXCEPT !.audit_log = Append(@, entry)]

\* df[column].value_counts().to_dict(): the values that are not missing, each with
\* the number of rows that hold it
value_counts(audit_log, column) ==
    {<<v, Cardinality({i \in 1..Len(audit_log) : audit_log[i][column] = v})>> :
        v \in {audit_log[i][column] : i \in 1..Len(audit_log)} \ {None, NaN}}

\* a float held as a fraction
Ratio(num, den) == [num |-> num, den |-> den]

\* a faulty variant: the success rate counts every entry
get_audit_stats_all(audit_log) ==
    IF Len(audit_log) = 0
    THEN [total_queries |-> 0, unique_members |-> 0, success_rate |-> Ratio(0, 1),
          queries_by_type |-> {}, queries_by_page |-> {}]
    ELSE [total_queries |-> Len(audit_log),
          unique_members |->
              Cardinality({audit_log[i].member_email : i \in 1..Len(audit_log)}
                              \ {None, NaN}),
          success_rate |-> Ratio(Len(audit_log) * 100, Len(audit_log)),
          queries_by_type |-> value_counts(audit_log, "query_type"),
          queries_by_page |-> value_counts(audit_log, "page")]

\* get_audit_stats: nunique() and value_counts() leave missing values out;
\* (df["status"] == "success").mean() * 100 is held as a fraction
get_audit_stats(audit_log) ==
    IF Len(audit_log) = 0
    THEN [total_queries |-> 0, unique_members |-> 0, success_rate |-> Ratio(0, 1),
          queries_by_type |-> {}, queries_by_page |-> {}]
    ELSE [total_queries |-> Len(audit_log),
          unique_members |->
              Cardinality({audit_log[i].member_email : i \in 1..Len(audit_log)}
                              \ {None, NaN}),
          success_rate |->
              Ratio(Cardinality({i \in 1..Len(audit_log) : audit_log[i].status = "success"})
                        * 100,
                    Len(audit_log)),
          queries_by_type |-> value_counts(audit_log, "query_type"),
          queries_by_page |-> value_counts(audit_log, "page")]

validate_filter_applied(member_email, filters_applied) ==
    /\ filters_applied # <<>>
    /\ \E i \in 1..Len(filters_applied) : IsSubstring(member_email, filters_applied[i])

IsViolation(e) == ~validate_filter_applied(e.member_email, e.filters_applied)

get_security_violations(audit_log) == SelectSeq(audit_log, IsViolation)

clear_audit_log(ss) == [ss EXCEPT !.audit_log = <<>>]

(***************************************************************************)
(* State at the start of a session                                         *)
(***************************************************************************)
\* st.session_state of a new browser session; an absent key reads as None
FreshSession ==
    [selected_member_email |-> None, selected_member_display |-> None,
     current_member |-> NoneObj, _conn_member_email |-> None,
     jdbc_url |-> None, conn |-> NoneObj, audit_log |-> <<>>,
     metric_dict |-> NoneObj, saved_queries |-> <<>>,
     benefits_conversation |-> <<>>]

\* os.environ and st.secrets with nothing configured
NoEnv ==
    [DBT_TECHCORP_TOKEN |-> None, DBT_RETAILPLUS_TOKEN |-> None,
     DBT_MANUFACTURINGCO_TOKEN |-> None, DBT_TOKEN |-> None,
     DBT_PROD_ENV_ID |-> None, DBT_SL_HOST |-> None, JDBC_URL |-> None,
     DBT_HOST |-> None, DBT_PROJECT_DIR |-> None, MEMBERS_CSV |-> "complete"]

\* the st.cache_data stores of the process, by cached function
EmptyCache ==
    [connection_attributes |-> {}, run_member_query |-> {}, get_query_results |-> {}]

IdleRun ==
    [ended |-> "done", ec |-> "none", parses |-> "none", picker |-> FALSE,
     conn_for |-> None, sent |-> <<>>, attempts |-> 0, query_runs |-> 0]

Idle == /\ session_state = FreshSession
        /\ cache = EmptyCache
        /\ run = IdleRun

(***************************************************************************)
(* The deployments and the roster                                          *)
(***************************************************************************)
SecretUrl ==
    JdbcHead \o DefaultHost \o JdbcPortEnv \o DefaultEnvId \o JdbcToken \o TokS

Configured ==
    [NoEnv EXCEPT !.DBT_HOST = DefaultHost, !.DBT_PROD_ENV_ID = DefaultEnvId,
                  !.DBT_PROJECT_DIR = <<"/", "d", "b", "t">>]

\* the deployments: which tokens are configured, and whether JDBC_URL is a secret
Deployments ==
    { [Configured EXCEPT !.DBT_TECHCORP_TOKEN = TokT, !.DBT_RETAILPLUS_TOKEN = TokR,
                         !.DBT_TOKEN = TokD],
      [Configured EXCEPT !.DBT_TECHCORP_TOKEN = TokT, !.DBT_RETAILPLUS_TOKEN = TokBad,
                         !.DBT_TOKEN = TokD],
      [Configured EXCEPT !.DBT_TECHCORP_TOKEN = TokT],
      [Configured EXCEPT !.DBT_TOKEN = TokD],
      [Configured EXCEPT !.DBT_TOKEN = TokD, !.JDBC_URL = SecretUrl],
      Configured }

\* the first deployment: every tenant and the fallback have a token
FullDeployment ==
    [Configured EXCEPT !.DBT_TECHCORP_TOKEN = TokT, !.DBT_RETAILPLUS_TOKEN = TokR,
                       !.DBT_TOKEN = TokD]

\* deployments whose data/members.csv has a row without an email
NoEmailDeployments ==
    { [FullDeployment EXCEPT !.MEMBERS_CSV = "missing_email"],
      [Configured EXCEPT !.DBT_TOKEN = TokD, !.JDBC_URL = SecretUrl,
                         !.MEMBERS_CSV = "missing_email"] }

\* a row of the member roster (data/members.csv, read by get_member_roster)
Member(first_name, last_name, email) ==
    [first_name |-> first_name, last_name |-> last_name, email |-> email,
     display_name |-> first_name \o <<" ">> \o last_name \o <<" ", ".", " ">>
                          \o (IF email = NaN THEN EmptyStr ELSE email)]

Roster ==
    << Member(<<"A", "l">>, <<"A">>, EmailAl),
       Member(<<"B", "o">>, <<"B">>, EmailBo),
       Member(<<"C", "y">>, <<"C">>, EmailCy) >>

\* data/members.csv with a first row whose email field is empty: read_csv gives nan
RosterMissingEmail == <<Member(<<"A", "b", "e">>, <<"A">>, NaN)>> \o Roster

\* the frame read from data/members.csv, sorted by first name
get_member_roster ==
    IF env.MEMBERS_CSV = "missing_email" THEN RosterMissingEmail ELSE Roster

\* the emails ensure_connection can be called for: no member, or one of the roster
MemberEmails == {None} \cup {RosterMissingEmail[i].email : i \in 1..Len(RosterMissingEmail)}

\* resolve_jdbc_url and the parse of its URL over the deployments and the emails,
\* tabulated: <<deployment, email, URL, what get_connection_attributes returns>>
Resolved ==
    {<<e, m, resolve_jdbc_url(e, m).url,
       get_connection_attributes(resolve_jdbc_url(e, m).url).conn>> :
        e \in Deployments \cup NoEmailDeployments, m \in MemberEmails}

ResolvedFor(e, member_email) ==
    CHOOSE t \in Resolved : t[1] = e /\ t[2] = member_email

(***************************************************************************)
(* A script run.  Streamlit runs a page's script from top to bottom on     *)
(* every interaction; st.stop() and an uncaught exception end the run and   *)
(* keep what the run wrote to st.session_state and to the caches.  A step   *)
(* of a run maps a world w = [ss, cache, run] to the next world and does    *)
(* nothing once the run has ended.                                          *)
(*                                                                          *)
(* run observes the run for the claims; the program reads none of it:      *)
(*   ended       how the run ended: "done", "stop" (st.stop()), "exception" *)
(*   ec          how ensure_connection ended: "returned", "stopped"         *)
(*   parses      get_connection_attributes was called in the run: "none",   *)
(*               "hit" (answered from its cache), "miss" (its body ran)     *)
(*   picker      the member selectbox was rendered in the run               *)
(*   conn_for    the email the session's descriptor was parsed for          *)
(*   sent        the requests that reached the backend in the run           *)
(*   attempts    data-query attempts since the audit log was last empty     *)
(*   query_runs  the runs of the session that sent a data query             *)
(***************************************************************************)
Running(w) == w.run.ended = "running"

st_stop(w) == [w EXCEPT !.run.ended = "stop"]

raise(w) == [w EXCEPT !.run.ended = "exception"]

\* the world at the start of a script run
Begin ==
    [ss |-> session_state,
     cache |-> cache,
     run |-> [run EXCEPT !.ended = "running", !.ec = "none", !.parses = "none",
                         !.picker = FALSE, !.sent = <<>>]]

\* a data query, as opposed to a request for metadata
IsDataQuery(q) == q.path \notin {"metrics", "saved_queries", "account"}

\* the state the run leaves
End(w) ==
    /\ session_state' = w.ss
    /\ cache' = w.cache
    /\ run' = [w.run EXCEPT
                   !.ended = IF @ = "running" THEN "done" ELSE @,
                   !.query_runs = IF \E i \in 1..Len(w.run.sent) : IsDataQuery(w.run.sent[i])
                                  THEN @ + 1 ELSE @]
    /\ UNCHANGED <<env, call, ret>>

\* the filters an entry point was handed before it enforced the identity filter
NoProposal == [kind |-> "none"]

\* a request that reached the backend: the page and the principal it was made for,
\* the Authorization header and the email its descriptor was parsed for, the filters
\* proposed and the where list sent, what the backend answered, and the number of
\* the audit entry that records it (0 for none); logged is the number of entries
\* the audit log held when the request went out
Sent(via, path, principal, conn, built_for, proposed, where, outcome, logged) ==
    [via |-> via, path |-> path, principal |-> principal,
     auth |-> IF conn = NoneObj THEN None ELSE conn[1].auth_header,
     built_for |-> built_for, proposed |-> proposed, where |-> where,
     outcome |-> outcome, entry |-> 0, logged |-> logged]

(***************************************************************************)
(* client.py: ensure_connection                                            *)
(***************************************************************************)
\* the terminal error of ensure_connection: st.error(...); st.stop()
connection_error(w) == st_stop([w EXCEPT !.run.ec = "stopped"])

\* a call of get_connection_attributes(jdbc_url): @st.cache_data answers from its
\* cache when it holds the URL and runs the body otherwise
cached_parse(w, jdbc_url) ==
    [w EXCEPT !.run.parses = IF jdbc_url \in w.cache.connection_attributes
                             THEN "hit" ELSE "miss",
              !.cache.connection_attributes = @ \cup {jdbc_url}]

\* conn = get_connection_attributes(jdbc_url) when force_refresh holds or no
\* descriptor is stored; parsed is what the parse of jdbc_url returns
build_connection(w, force_refresh, member_email, jdbc_url, parsed) ==
    IF ~(force_refresh \/ w.ss.conn = NoneObj)
    THEN [w EXCEPT !.run.ec = "returned"]
    ELSE IF parsed = NoneObj
    THEN connection_error(cached_parse(w, jdbc_url))
    ELSE [cached_parse(w, jdbc_url) EXCEPT !.ss.conn = parsed,
                                           !.run.ec = "returned",
                                           !.run.conn_for = member_email]

\* a faulty variant: the URL is stored and the cache cleared on every call
refresh_url_always(w, force_refresh, jdbc_url) ==
    [w EXCEPT !.ss.jdbc_url = jdbc_url, !.cache.connection_attributes = {}]

\* if force_refresh or st.session_state.get("jdbc_url") != jdbc_url
refresh_url(w, force_refresh, jdbc_url) ==
    IF force_refresh \/ w.ss.jdbc_url # jdbc_url
    THEN [w EXCEPT !.ss.jdbc_url = jdbc_url, !.cache.connection_attributes = {}]
    ELSE w

\* a faulty variant: the empty URL is not rejected before the session is touched
connect_unchecked(w, force_refresh, member_email, jdbc_url, parsed) ==
    IF ~Falsy(member_email) /\ w.ss._conn_member_email # member_email
    THEN build_connection(
             refresh_url([w EXCEPT !.ss._conn_member_email = member_email], TRUE, jdbc_url),
             TRUE, member_email, jdbc_url, parsed)
    ELSE build_connection(refresh_url(w, force_refresh, jdbc_url), force_refresh,
                          member_email, jdbc_url, parsed)

\* Force refresh if member email changed (switching companies)
\* parsed is what get_connection_attributes(jdbc_url) returns
connect(w, force_refresh, member_email, jdbc_url, parsed) ==
    IF jdbc_url = EmptyStr THEN connection_error(w)
    ELSE IF ~Falsy(member_email) /\ w.ss._conn_member_email # member_email
    THEN build_connection(
             refresh_url([w EXCEPT !.ss._conn_member_email = member_email], TRUE, jdbc_url),
             TRUE, member_email, jdbc_url, parsed)
    ELSE build_connection(refresh_url(w, force_refresh, jdbc_url), force_refresh,
                          member_email, jdbc_url, parsed)

\* member_email is the argument, or the session's selected email without one
ensure_connection_as(w, e, force_refresh, member_email) ==
    IF member_email = NaN /\ e.JDBC_URL = None THEN raise(w)
    ELSE connect(w, force_refresh, member_email,
            ResolvedFor(e, member_email)[3], ResolvedFor(e, member_email)[4])

ensure_connection(w, e, force_refresh, member_email) ==
    IF ~Running(w) THEN w
    ELSE ensure_connection_as(w, e, force_refresh,
             IF Falsy(member_email) THEN w.ss.selected_member_email ELSE member_email)

(***************************************************************************)
(* helpers.py: the member context                                          *)
(***************************************************************************)
set_member_context(ss, member_row) ==
    [ss EXCEPT !.selected_member_email = member_row.email,
               !.selected_member_display = member_row.display_name,
               !.current_member = Some(member_row)]

\* the rows of the roster whose email is the given one
RosterMatch(roster, email) == SelectSeq(roster, LAMBDA r : r.email = email /\ email # NaN)

ensure_member_context(w, roster) ==
    IF ~Running(w) THEN w
    ELSE IF Len(roster) = 0 THEN st_stop(w)
    ELSE IF ~Falsy(w.ss.selected_member_email)
            /\ Len(RosterMatch(roster, w.ss.selected_member_email)) > 0
    THEN [w EXCEPT !.ss = set_member_context(
                              @, RosterMatch(roster, w.ss.selected_member_email)[1])]
    ELSE [w EXCEPT !.ss = set_member_context(@, roster[1])]

\* current_member.get("email") after ensure_member_context
CurrentEmail(w) ==
    IF w.ss.current_member = NoneObj THEN None ELSE w.ss.current_member[1].email

\* if not current_member_email: st.error(...); st.stop()
require_email(w) ==
    IF Running(w) /\ Falsy(CurrentEmail(w)) THEN st_stop(w) ELSE w

\* if "metric_dict" not in st.session_state: st.warning(...); st.stop()
require_metrics(w) ==
    IF Running(w) /\ w.ss.metric_dict = NoneObj THEN st_stop(w) ELSE w

(***************************************************************************)
(* Requests to the Semantic Layer                                          *)
(* What the backend answers is an input of the run:                        *)
(*   successful     the query is created and a poll reports SUCCESSFUL     *)
(*   error_envelope the create or a poll response is an error envelope     *)
(*                  (data: null, errors: [...])                             *)
(*   failed         a poll reports FAILED                                  *)
(*   exception      the transport, or a malformed response, raises         *)
(***************************************************************************)
StopOutcomes == {"error_envelope", "failed"}

FailOutcomes == StopOutcomes \cup {"exception"}

Outcomes == FailOutcomes \cup {"successful"}

\* str(e) of the exception of a request that raised
ErrorMessage == <<"request failed">>

\* the kwargs of Query(...); Query.variables carries them through to the payload
Payload(metrics, group_by, where) ==
    [metrics |-> metrics, groupBy |-> group_by, where |-> where]

\* the cache key of get_query_results: all of its arguments
QueryArgs(payload, source, progress, conn_arg) ==
    [payload |-> payload, source |-> source, key |-> "createQuery",
     progress |-> progress, conn |-> conn_arg]

\* the body of get_query_results: request is the create request the backend received
submit_query(w, args, request) ==
    IF request.outcome = "successful"
    THEN [w EXCEPT !.run.sent = Append(@, request), !.run.attempts = @ + 1,
                   !.cache.get_query_results = @ \cup {[args |-> args, auth |-> request.auth]}]
    ELSE IF request.outcome \in StopOutcomes
    THEN st_stop([w EXCEPT !.run.sent = Append(@, request), !.run.attempts = @ + 1])
    ELSE raise([w EXCEPT !.run.sent = Append(@, request), !.run.attempts = @ + 1])

\* client.py: get_query_results, cached on all of its arguments;
\* conn = conn or st.session_state.conn
get_query_results(w, payload, source, progress, conn_arg, outcome, path, principal, proposed) ==
    IF ~Running(w) THEN w
    ELSE IF \E c \in w.cache.get_query_results :
                c.args = QueryArgs(payload, source, progress, conn_arg)
    THEN w
    ELSE submit_query(w, QueryArgs(payload, source, progress, conn_arg),
                      Sent("graphql", path, principal,
                           IF conn_arg = NoneObj THEN w.ss.conn ELSE conn_arg,
                           w.run.conn_for, proposed, payload.where, outcome,
                           Len(w.ss.audit_log)))

\* the last request of the run is the one entry number n of the audit log records
Logged(w, n) ==
    IF w.run.sent = <<>> THEN w
    ELSE [w EXCEPT !.run.sent[Len(w.run.sent)].entry = n]

\* the metadata requests: the metric catalogue, the saved queries, the account
MetricNames == <<"total_claims_count", "total_paid_by_insurance">>

SavedQueries ==
    << [name |-> "claims_overview", where |-> NoneObj],
       [name |-> "open_claims", where |-> Some(OtherClause)] >>

MetadataRequest(w, path, outcome) ==
    Sent("graphql", path, w.ss.selected_member_email, w.ss.conn, w.run.conn_for,
         NoProposal, <<>>, outcome, Len(w.ss.audit_log))

load_metrics(w, outcome) ==
    IF ~Running(w) THEN w
    ELSE IF outcome = "successful"
    THEN [w EXCEPT !.ss.metric_dict = Some(MetricNames),
                   !.ss.saved_queries = SavedQueries,
                   !.run.sent = @ \o <<MetadataRequest(w, "metrics", outcome),
                                       MetadataRequest(w, "saved_queries", outcome),
                                       MetadataRequest(w, "account", outcome)>>]
    ELSE IF outcome = "error_envelope"
    THEN [w EXCEPT !.run.sent = Append(@, MetadataRequest(w, "metrics", outcome))]
    ELSE raise([w EXCEPT !.run.sent = Append(@, MetadataRequest(w, "metrics", outcome))])

MetricsOutcomes == {"successful", "error_envelope", "exception"}

\* the metrics are loaded unless the session holds them
load_if_missing(w, outcome) ==
    IF w.ss.metric_dict # NoneObj THEN w ELSE load_metrics(w, outcome)

\* init_app.py: initialize_app
initialize_app(w, e, outcome) ==
    load_if_missing(ensure_connection(w, e, FALSE, None), outcome)

(***************************************************************************)
(* pages/01 Member Dashboard                                               *)
(***************************************************************************)
DashboardQueries ==
    << [fn |-> "get_member_summary",
        metrics |-> <<"ytd_member_responsibility", "total_paid_by_insurance",
                      "total_claim_amount", "total_claims_count">>,
        group_by |-> <<>>],
       [fn |-> "get_spend_timeseries",
        metrics |-> <<"ytd_member_responsibility", "total_paid_by_insurance">>,
        group_by |-> << <<"claim__claim_date", "DAY">> >>],
       [fn |-> "get_claims_by_type",
        metrics |-> <<"total_claims_count">>,
        group_by |-> << <<"claim__claim_type", "None">> >>],
       [fn |-> "get_provider_breakdown",
        metrics |-> <<"total_member_responsibility", "total_paid_by_insurance",
                      "total_claim_amount">>,
        group_by |-> << <<"claim__provider_name", "None">> >>],
       [fn |-> "get_claim_status_breakdown",
        metrics |-> <<"total_claims_count">>,
        group_by |-> << <<"claim__claim_status", "None">> >>] >>

\* f"{name}__{grain}" if grain else name
Dimensions(group_by) ==
    [i \in 1..Len(group_by) |->
        IF group_by[i][2] = "None" THEN group_by[i][1]
        ELSE group_by[i][1] \o "__" \o group_by[i][2]]

\* the finally clause of run_member_query: w is the world the try block left.
\* st.stop() raises past "except Exception", so status stays "success" unless the
\* block raised an Exception.
log_member_query(w, q, where, _member_email) ==
    IF Falsy(_member_email) THEN w
    ELSE Logged([w EXCEPT !.ss = log_query_execution(@,
                     AuditEntry("member_dashboard", _member_email, where, q.metrics,
                                Dimensions(q.group_by),
                                IF Running(w) THEN 1 ELSE 0,
                                IF w.run.ended = "exception" THEN "failed" ELSE "success",
                                IF w.run.ended = "exception" THEN ErrorMessage ELSE None,
                                <<"Member Dashboard">>))],
                Len(w.ss.audit_log) + 1)

\* the result is cached when the call returned
cache_member_query(w, key, conn) ==
    IF Running(w)
    THEN [w EXCEPT !.cache.run_member_query =
                       @ \cup {[key |-> key, auth |-> conn[1].auth_header]}]
    ELSE w

\* a faulty variant: the where list is left out of the key
MemberQueryKey_unfiltered(q, where) ==
    [metrics |-> q.metrics, group_by |-> q.group_by, where |-> <<>>]

MemberQueryKey(q, where) ==
    [metrics |-> q.metrics, group_by |-> q.group_by, where |-> where]

\* run_member_query, cached on (metrics, group_by, where, limit); _member_email is
\* not part of the key.  conn is the module-level value ensure_connection returned.
run_member_query(w, q, where, _member_email, conn, outcome) ==
    IF ~Running(w) THEN w
    ELSE IF \E c \in w.cache.run_member_query : c.key = MemberQueryKey(q, where) THEN w
    ELSE cache_member_query(
             log_member_query(
                 get_query_results(w, Payload(q.metrics, q.group_by, where), None, FALSE,
                                   conn, outcome, "member_dashboard", _member_email,
                                   NoProposal),
                 q, where, _member_email),
             MemberQueryKey(q, where), conn)

\* the five queries of the page in script order; query number k ends as outcome says
RECURSIVE RunDashboardQueries(_, _, _, _, _, _, _)
RunDashboardQueries(w, i, k, outcome, clause, email, conn) ==
    IF i > Len(DashboardQueries) THEN w
    ELSE RunDashboardQueries(
             run_member_query(w, DashboardQueries[i], <<clause>>, email, conn,
                              IF i = k THEN outcome ELSE "successful"),
             i + 1, k, outcome, clause, email, conn)

\* the script down to the first query: conn = ensure_connection() at the top;
\* member_filter raises ValueError without an email, and the page stops
MemberDashboardTop(e) ==
    require_email(ensure_member_context(ensure_connection(Begin, e, FALSE, None), get_member_roster))

\* conn is the descriptor ensure_connection returned at the top of the script
MemberDashboard(top, k, outcome) ==
    RunDashboardQueries(top, 1, k, outcome, member_filter(CurrentEmail(top)),
                        CurrentEmail(top), top.ss.conn)

(***************************************************************************)
(* pages/02 Query Builder                                                  *)
(***************************************************************************)
\* the sql of each WhereInput, as Query.variables sends them
SqlOf(where_inputs) == [i \in 1..Len(where_inputs) |-> where_inputs[i].sql]

\* the script down to the query tabs
QueryBuilderTop(e) ==
    require_email(ensure_member_context(
        require_metrics(ensure_connection(Begin, e, FALSE, None)), get_member_roster))

\* the ad hoc tab.  Its filter inputs are hidden: QueryLoader finds no where items.
AdHocTab(w, button, selected_metrics, outcome) ==
    IF ~Running(w) \/ button # "adhoc" THEN w
    ELSE IF Len(selected_metrics) = 0 THEN st_stop(w)
    ELSE get_query_results(
             w, Payload(selected_metrics, <<>>,
                        SqlOf(ensure_where_inputs(CurrentEmail(w), NoneObj))),
             None, TRUE, NoneObj, outcome, "query_builder", CurrentEmail(w),
             NoProposal)

\* where = [] if sql is None else [{"sql": sql.get("whereSqlTemplate")}]
SavedWhere(saved_query) ==
    IF saved_query.where = NoneObj THEN <<>> ELSE <<WhereInput(saved_query.where[1])>>

\* the saved query tab; sq is the saved query the selectbox shows
SavedQueryTab(w, button, sq, outcome) ==
    IF ~Running(w) \/ button # "saved" \/ Len(w.ss.saved_queries) = 0 THEN w
    ELSE get_query_results(
             w, Payload(<<w.ss.saved_queries[sq].name>>, <<>>,
                        SqlOf(ensure_where_inputs(
                                  CurrentEmail(w),
                                  Some(SavedWhere(w.ss.saved_queries[sq]))))),
             None, TRUE, NoneObj, outcome, "query_builder", CurrentEmail(w),
             NoProposal)

\* button is the submit button pressed in this run ("none", "adhoc" or "saved")
QueryBuilder(top, button, selected_metrics, sq, outcome) ==
    SavedQueryTab(AdHocTab(top, button, selected_metrics, outcome), button, sq, outcome)

(***************************************************************************)
(* pages/03 natural-language page                                          *)
(***************************************************************************)
\* what parse_response returns for the model's answer
AgentResponses ==
    {[intent |-> "empty"], [intent |-> "metadata"]}
    \cup [intent : {"query"}, metrics : {<<>>, <<"total_claims_count">>},
          where : {[kind |-> "none"],
                   [kind |-> "list", v |-> <<>>],
                   [kind |-> "list", v |-> <<OtherClause>>],
                   [kind |-> "str", v |-> OtherClause]}]

\* the script down to the chat input
ConversationalAnalyticsTop(e, metrics_outcome) ==
    require_email(ensure_member_context(
        require_metrics(initialize_app(Begin, e, metrics_outcome)), get_member_roster))

\* except Exception as exc: st.error(...); st.stop()
stop_on_exception(w) == IF w.run.ended = "exception" THEN st_stop(w) ELSE w

\* question is whether the chat input holds a question in this run
ConversationalAnalytics(top, question, response, outcome) ==
    IF ~Running(top) \/ ~question THEN top
    ELSE IF response.intent \in {"empty", "metadata"} THEN st_stop(top)
    ELSE IF Len(response.metrics) = 0 THEN st_stop(top)
    ELSE stop_on_exception(
             get_query_results(
                 top, Payload(response.metrics, <<>>,
                              where_clauses_of(CurrentEmail(top), response.where)),
                 <<"streamlit-openai">>, FALSE, NoneObj, outcome, "basic_llm",
                 CurrentEmail(top), response.where))

(***************************************************************************)
(* pages/04 Benefits Coach                                                 *)
(***************************************************************************)
validate_environment(e) ==
    /\ ~Falsy(e["DBT_HOST"])
    /\ ~Falsy(e["DBT_TOKEN"])
    /\ ~Falsy(e["DBT_PROD_ENV_ID"])
    /\ ~Falsy(e["DBT_PROJECT_DIR"])

\* a function_call item of the agent's conversation
ToolCall(tool_name, where) == [tool_name |-> tool_name, where |-> where]

\* the where argument as the tool receives it
WhereArgument(raw) ==
    IF raw.kind = "none" THEN <<>> ELSE IF raw.kind = "list" THEN raw.v ELSE <<raw.v>>

\* where_filters of the audit entry: a string becomes [string]; where_filters or []
where_filters_of(raw) ==
    IF raw.kind = "none" THEN <<>> ELSE IF raw.kind = "list" THEN raw.v ELSE <<raw.v>>

IsQuery(c) == c.tool_name = "query_metrics"

\* the query_metrics calls the agent made in this run reach the backend through MCP
RECURSIVE SendToolCalls(_, _, _, _)
SendToolCalls(w, calls, member_email, outcome) ==
    IF calls = <<>> THEN w
    ELSE SendToolCalls(
             IF IsQuery(Head(calls))
             THEN [w EXCEPT !.run.sent =
                                Append(@, Sent("mcp", "benefits_coach", member_email,
                                               NoneObj, None, Head(calls).where,
                                               WhereArgument(Head(calls).where), outcome,
                                               Len(w.ss.audit_log))),
                            !.run.attempts = @ + 1]
             ELSE w,
             Tail(calls), member_email, outcome)

\* for msg in conversation_list: every query_metrics function_call is logged
RECURSIVE LogToolCalls(_, _, _)
LogToolCalls(ss, tool_results, member_email) ==
    IF tool_results = <<>> THEN ss
    ELSE LogToolCalls(
             IF IsQuery(Head(tool_results))
             THEN log_query_execution(ss,
                      AuditEntry("benefits_coach", member_email,
                                 where_filters_of(Head(tool_results).where),
                                 <<>>, <<>>, None, "success", None,
                                 <<"Benefits Coach">>))
             ELSE ss,
             Tail(tool_results), member_email)

\* the script down to the chat input
BenefitsCoachTop(e, metrics_outcome) ==
    require_email(ensure_member_context(initialize_app(Begin, e, metrics_outcome), get_member_roster))

\* the else branch of the page: the conversation is stored, and every query_metrics
\* call of result.to_input_list() (the conversation so far and this run's items)
\* is logged
store_and_log(w, updated_conversation, member_email) ==
    [w EXCEPT !.ss = LogToolCalls([@ EXCEPT !.benefits_conversation = updated_conversation],
                                  SelectSeq(updated_conversation, IsQuery), member_email),
              \* the entries of this run's calls come after those of the earlier calls
              !.run.sent = [i \in 1..Len(w.run.sent) |->
                               IF w.run.sent[i].via # "mcp" THEN w.run.sent[i]
                               ELSE [w.run.sent[i] EXCEPT !.entry =
                                        Len(w.ss.audit_log)
                                        + Len(SelectSeq(w.ss.benefits_conversation, IsQuery))
                                        + Cardinality({j \in 1..i :
                                                          w.run.sent[j].via = "mcp"})]]]

\* calls are the tool calls the agent makes in this run, raised whether run_agent
\* raised after them, outcome what the backend answered to the queries
BenefitsCoach(top, e, question, calls, raised, outcome) ==
    IF ~Running(top) \/ ~question THEN top
    ELSE IF ~validate_environment(e) THEN st_stop(top)
    \* except Exception: st.error(...), nothing is stored or logged
    ELSE IF raised THEN SendToolCalls(top, calls, CurrentEmail(top), outcome)
    ELSE store_and_log(SendToolCalls(top, calls, CurrentEmail(top), outcome),
                       top.ss.benefits_conversation \o calls, CurrentEmail(top))

(***************************************************************************)
(* app.py: the Authentication page                                         *)
(***************************************************************************)
\* options.index(selected_member_display), 0 when it is not an option
default_index(ss, roster) ==
    IF \E i \in 1..Len(roster) : roster[i].display_name = ss.selected_member_display
    THEN CHOOSE i \in 1..Len(roster) :
             /\ roster[i].display_name = ss.selected_member_display
             /\ \A j \in 1..(i - 1) : roster[j].display_name # ss.selected_member_display
    ELSE 1

\* if member_roster.empty: st.stop()
require_roster(w, roster) == IF Running(w) /\ Len(roster) = 0 THEN st_stop(w) ELSE w

\* the script down to the member selectbox
AuthenticationTop(e, metrics_outcome) ==
    require_roster(load_if_missing(ensure_connection(Begin, e, FALSE, None), metrics_outcome),
                   get_member_roster)

\* pick is the option the selectbox holds in this run
Authentication(top, pick) ==
    IF ~Running(top) THEN top
    ELSE IF get_member_roster[pick].display_name # top.ss.selected_member_display
    THEN [top EXCEPT !.ss = set_member_context(top.ss, get_member_roster[pick]), !.run.picker = TRUE]
    ELSE [ensure_member_context(top, get_member_roster) EXCEPT !.run.picker = TRUE]

\* the selectbox shows its default until the page has been rendered
Picks ==
    IF run.picker THEN 1..Len(get_member_roster) ELSE {default_index(session_state, get_member_roster)}

(***************************************************************************)
(* pages/05 Audit Log, and the pages that issue no data query              *)
(***************************************************************************)
clear_button(w, clear) ==
    IF Running(w) /\ clear
    THEN [w EXCEPT !.ss = clear_audit_log(@), !.run.attempts = 0]
    ELSE w

AuditLog(clear) == clear_button(ensure_member_context(Begin, get_member_roster), clear)

\* pages/06 Architecture and pages/07 Request a Metric
StaticPage(e, metrics_outcome) ==
    ensure_member_context(initialize_app(Begin, e, metrics_outcome), get_member_roster)

(***************************************************************************)
(* The session: one action per script run of a page                        *)
(***************************************************************************)
MaxQueryRuns == 1
MaxFailAt == 2
MaxConversation == 1
MaxToolCalls == 1

Init ==
    /\ env \in Deployments
    /\ Idle
    /\ call = [fn |-> "script_run"]
    /\ ret = NoneObj

MayQuery == run.query_runs < MaxQueryRuns

\* the outcome of the metadata requests matters while the metrics are not loaded
MetricsInputs ==
    IF session_state.metric_dict = NoneObj THEN MetricsOutcomes ELSE {"successful"}

RunAuthentication ==
    \E m \in MetricsInputs :
        \E top \in {AuthenticationTop(env, m)}, pick \in Picks :
            End(Authentication(top, pick))

\* every query succeeds, or query number k fails
DashboardInputs ==
    {[k |-> 0, outcome |-> "successful"]}
    \cup [k : 1..MaxFailAt, outcome : FailOutcomes]

RunMemberDashboard ==
    /\ MayQuery
    /\ \E top \in {MemberDashboardTop(env)}, i \in DashboardInputs :
           End(MemberDashboard(top, i.k, i.outcome))

QueryBuilderInputs ==
    {[button |-> "none", selected_metrics |-> <<>>, sq |-> 1, outcome |-> "successful"],
     [button |-> "adhoc", selected_metrics |-> <<>>, sq |-> 1, outcome |-> "successful"]}
    \cup [button : {"adhoc"}, selected_metrics : {<<"total_claims_count">>}, sq : {1},
          outcome : Outcomes]
    \cup [button : {"saved"}, selected_metrics : {<<>>}, sq : 1..Len(SavedQueries),
          outcome : Outcomes]

RunQueryBuilder ==
    \E top \in {QueryBuilderTop(env)}, i \in QueryBuilderInputs :
        /\ i.button # "none" => MayQuery
        /\ End(QueryBuilder(top, i.button, i.selected_metrics, i.sq, i.outcome))

ConversationalInputs ==
    [question : {TRUE}, response : {r \in AgentResponses : r.intent # "query"},
     outcome : {"successful"}]
    \cup [question : {TRUE},
          response : {r \in AgentResponses : r.intent = "query" /\ r.metrics # <<>>},
          outcome : Outcomes]
    \cup {[question |-> TRUE,
           response |-> [intent |-> "query", metrics |-> <<>>, where |-> [kind |-> "none"]],
           outcome |-> "successful"],
          [question |-> FALSE, response |-> [intent |-> "empty"], outcome |-> "successful"]}

RunConversationalAnalytics ==
    \E m \in MetricsInputs :
        \E top \in {ConversationalAnalyticsTop(env, m)}, i \in ConversationalInputs :
            /\ i.question => MayQuery
            /\ End(ConversationalAnalytics(top, i.question, i.response, i.outcome))

\* what the agent may pass as where: nothing, or the identity filter of the first
\* or of the last member of the roster
CoachCalls ==
    {ToolCall("list_metrics", [kind |-> "none"])}
    \cup {ToolCall("query_metrics", wh) :
            wh \in {[kind |-> "none"],
                    [kind |-> "str", v |-> member_filter(Roster[1].email)],
                    [kind |-> "list", v |-> <<member_filter(Roster[Len(Roster)].email)>>]}}

CoachInputs ==
    {[question |-> FALSE, calls |-> <<>>, raised |-> FALSE, outcome |-> "successful"]}
    \cup [question : {TRUE}, calls : SeqsUpTo(CoachCalls, MaxToolCalls),
          raised : BOOLEAN, outcome : {"successful", "failed"}]

RunBenefitsCoach ==
    \E m \in MetricsInputs :
        \E top \in {BenefitsCoachTop(env, m)}, i \in CoachInputs :
            /\ i.question => /\ MayQuery
                             /\ Len(session_state.benefits_conversation) < MaxConversation
            /\ End(BenefitsCoach(top, env, i.question, i.calls, i.raised, i.outcome))

RunAuditLog == \E clear \in BOOLEAN : End(AuditLog(clear))

RunStaticPage == \E m \in MetricsInputs : End(StaticPage(env, m))

Next ==
    \/ RunAuthentication
    \/ RunMemberDashboard
    \/ RunQueryBuilder
    \/ RunConversationalAnalytics
    \/ RunBenefitsCoach
    \/ RunAuditLog
    \/ RunStaticPage

Spec == Init /\ [][Next]_vars

(***************************************************************************)
(* Functions applied on their own: the inputs are drawn in the initial     *)
(* state, one action applies the function and stores what it returned.     *)
(***************************************************************************)
MaxFilters == 2
MaxEntries == 2


\* ---- filter enforcement -------------------------------------------------

EnforcePrincipals == {EmailCy, EmailXCy}

CandidateClauses ==
    {USER_FILTER_SQL(EmailCy), USER_FILTER_SQL(EmailXCy), OtherClause}

EnforceCalls ==
    [fn : {"ensure_where_inputs"}, email : EnforcePrincipals,
     arg : {NoneObj} \cup {Some(l) : l \in SeqsUpTo({WhereInput(c) : c \in CandidateClauses}, MaxFilters)}]
    \cup
    [fn : {"ensure_where_dicts"}, email : EnforcePrincipals,
     arg : {NoneObj} \cup {Some(l) : l \in SeqsUpTo({[sql |-> c] : c \in CandidateClauses}
                                                   \cup {[name |-> OtherClause]}, MaxFilters)}]
    \cup
    [fn : {"where_clauses"}, email : EnforcePrincipals,
     arg : {[kind |-> "none"]}
           \cup {[kind |-> "list", v |-> l] : l \in SeqsUpTo(CandidateClauses, MaxFilters)}
           \cup {[kind |-> "str", v |-> c] : c \in CandidateClauses \cup {EmptyStr}}]

\* the enforcer the call names, and the same enforcer applied to its own result
Enforce(c, arg) ==
    CASE c.fn = "ensure_where_inputs" -> ensure_where_inputs(c.email, arg)
      [] c.fn = "ensure_where_dicts" -> ensure_where_dicts(c.email, arg)
      [] c.fn = "where_clauses" -> where_clauses_of(c.email, arg)

AsArgument(c, result) ==
    IF c.fn = "where_clauses" THEN [kind |-> "list", v |-> result] ELSE Some(result)

InitEnforce ==
    /\ Idle
    /\ env = NoEnv
    /\ call \in EnforceCalls
    /\ ret = NoneObj

ApplyEnforce ==
    /\ ret = NoneObj
    /\ ret' = Some([once |-> Enforce(call, call.arg),
                    twice |-> Enforce(call, AsArgument(call, Enforce(call, call.arg)))])
    /\ UNCHANGED <<env, session_state, cache, run, call>>

SpecEnforce == InitEnforce /\ [][ApplyEnforce]_vars

\* ---- the violation scan -------------------------------------------------
AuditEmails == {EmailCy}

AuditFilterLists ==
    SeqsUpTo({USER_FILTER_SQL(EmailCy), USER_FILTER_SQL(EmailXCy), OtherClause}, MaxFilters)

AuditEntries ==
    {AuditEntry("benefits_coach", m, f, <<>>, <<>>, None, "success", None, <<"Benefits Coach">>) :
        m \in AuditEmails, f \in AuditFilterLists}

InitAudit ==
    /\ env = NoEnv
    /\ cache = EmptyCache
    /\ run = IdleRun
    /\ \E l \in SeqsUpTo(AuditEntries, MaxEntries) :
           session_state = [FreshSession EXCEPT !.audit_log = l]
    /\ call = [fn |-> "get_security_violations"]
    /\ ret = NoneObj

ApplyViolations ==
    /\ ret = NoneObj
    /\ ret' = Some(get_security_violations(session_state.audit_log))
    /\ UNCHANGED <<env, session_state, cache, run, call>>

SpecAudit == InitAudit /\ [][ApplyViolations]_vars

\* ---- credential lookup --------------------------------------------------
TokenEnvs ==
    {[NoEnv EXCEPT !.DBT_TECHCORP_TOKEN = t, !.DBT_RETAILPLUS_TOKEN = r,
                   !.DBT_MANUFACTURINGCO_TOKEN = m, !.DBT_TOKEN = d] :
        t \in {None, EmptyStr, TokBlank, TokT, TokPadded},
        r \in {None, TokR}, m \in {None, TokM}, d \in {None, TokD, TokPadded}}

TokenCompanies ==
    {CoTechcorp, CoRetailplus, CoManufacturingco, CoDefault, CoTechcorpMixed, CoUnknown}

InitToken ==
    /\ Idle
    /\ env \in TokenEnvs
    /\ call \in [fn : {"get_company_token"}, company : TokenCompanies]
    /\ ret = NoneObj

ApplyGetCompanyToken ==
    /\ ret = NoneObj
    /\ ret' = Some(get_company_token(env, call.company))
    /\ UNCHANGED <<env, session_state, cache, run, call>>

SpecToken == InitToken /\ [][ApplyGetCompanyToken]_vars


\* ---- connection calls ----------------------------------------------------
\* a JDBC_URL secret that carries the token also configured for techcorp
TechcorpSecretUrl ==
    JdbcHead \o DefaultHost \o JdbcPortEnv \o DefaultEnvId \o JdbcToken \o TokT

ConnectEnvs ==
    {[Configured EXCEPT !.DBT_TECHCORP_TOKEN = t, !.DBT_RETAILPLUS_TOKEN = r,
                        !.DBT_TOKEN = d, !.JDBC_URL = s] :
        t \in {None, TokT}, r \in {None, TokR, TokBad}, d \in {None, TokD},
        s \in {None, SecretUrl, TechcorpSecretUrl}}

ConnectMembers ==
    { Member(<<"A", "l">>, <<"A">>, EmailAl),
      Member(<<"B", "o">>, <<"B">>, EmailBo),
      Member(<<"C", "y">>, <<"C">>, EmailCy),
      Member(<<"E", "v", "e">>, <<"E">>, EmailEve) }

InitConnect ==
    /\ Idle
    /\ env \in ConnectEnvs
    /\ call = [fn |-> "none"]
    /\ ret = NoneObj

\* the member context changes between two script runs
SelectMember ==
    /\ \E member_row \in ConnectMembers :
           /\ member_row.email # session_state.selected_member_email
           /\ session_state' = set_member_context(session_state, member_row)
           /\ call' = [fn |-> "set_member_context", member_email |-> member_row.email]
    /\ ret' = NoneObj
    /\ UNCHANGED <<env, cache, run>>

\* the log events of an ensure_connection call: those of resolve_jdbc_url, and
\* those of get_connection_attributes when its body ran
connection_logs(w, resolved) ==
    resolved.logs \o
    (IF w.run.parses = "miss" THEN get_connection_attributes(resolved.url).logs ELSE <<>>)

\* what the call gave its caller: the descriptor when it returned, and the log
connection_result(w, resolved) ==
    [conn |-> IF w.run.ec = "returned" THEN w.ss.conn ELSE NoneObj,
     logs |-> connection_logs(w, resolved)]

\* ensure_connection(force_refresh) as the pages call it, without a member_email
ensure_connection_resolved(w, force_refresh, member_email, resolved) ==
    connect(w, force_refresh, member_email, resolved.url,
            IF resolved.url = EmptyStr THEN NoneObj
            ELSE get_connection_attributes(resolved.url).conn)

CallEnsureConnection ==
    \E force_refresh \in BOOLEAN,
       resolved \in {resolve_jdbc_url(env, session_state.selected_member_email)} :
        \E w \in {ensure_connection_resolved(Begin, force_refresh,
                      session_state.selected_member_email, resolved)} :
            /\ session_state' = w.ss
            /\ cache' = w.cache
            /\ run' = w.run
            /\ call' = [fn |-> "ensure_connection", force_refresh |-> force_refresh,
                        member_email |-> session_state.selected_member_email]
            /\ ret' = Some(connection_result(w, resolved))
            /\ UNCHANGED env

NextConnect == SelectMember \/ CallEnsureConnection

SpecConnect == InitConnect /\ [][NextConnect]_vars

(***************************************************************************)
(* get_company_from_email applied to one email                             *)
(***************************************************************************)
UpperChar(c) ==
    IF \E i \in 1..Len(LowerLetters) : LowerLetters[i] = c
    THEN UpperLetters[CHOOSE i \in 1..Len(LowerLetters) : LowerLetters[i] = c]
    ELSE c

Upper(s) == [i \in 1..Len(s) |-> UpperChar(s[i])]

Capitalize(s) == [i \in 1..Len(s) |-> IF i = 1 THEN UpperChar(s[i]) ELSE s[i]]

ConfiguredDomains == {DomainTechcorp, DomainRetailplus, DomainManufacturingco}

\* the configured domains in three letter cases, with something before and after
\* them, an unknown domain and an empty one
CompanyDomains ==
    UNION {{d, Upper(d), Capitalize(d), <<"n", "o", "t">> \o d, d \o <<".", "u", "k">>} :
              d \in ConfiguredDomains}
        \cup {<<"o", "t", "h", "e", "r", ".", "o", "r", "g">>, EmptyStr}

\* None, "", and strings with no, one or two "@"
CompanyEmails ==
    {None, EmptyStr}
        \cup {local \o at \o d : local \in {EmptyStr, <<"a", "l">>, <<"m", "@", "x">>},
                                 at \in {EmptyStr, <<"@">>},
                                 d \in CompanyDomains}

InitCompany ==
    /\ Idle
    /\ env = NoEnv
    /\ call \in [fn : {"get_company_from_email"}, email : CompanyEmails]
    /\ ret = NoneObj

ApplyGetCompanyFromEmail ==
    /\ ret = NoneObj
    /\ ret' = Some(get_company_from_email(call.email))
    /\ UNCHANGED <<env, session_state, cache, run, call>>

SpecCompany == InitCompany /\ [][ApplyGetCompanyFromEmail]_vars

(***************************************************************************)
(* The audit log under the pages and under any caller of                   *)
(* log_query_execution                                                     *)
(***************************************************************************)
MaxLogged == 2

LogEntries ==
    {AuditEntry("dashboard", EmailAl, <<USER_FILTER_SQL(EmailAl)>>, <<>>, <<>>, 0, "success", None, <<"Member Dashboard">>),
     AuditEntry("benefits_coach", EmailCy, <<>>, <<>>, <<>>, None, "failed", <<"timeout">>, None)}

InitLog ==
    /\ Init
    /\ env = FullDeployment

\* some flow calls log_query_execution(...)
CallLogQueryExecution ==
    /\ Len(session_state.audit_log) < MaxLogged
    /\ \E entry \in LogEntries : session_state' = log_query_execution(session_state, entry)
    /\ call' = [fn |-> "log_query_execution"]
    /\ UNCHANGED <<env, cache, run, ret>>

NextLog == CallLogQueryExecution \/ Next

SpecLog == InitLog /\ [][NextLog]_vars

(***************************************************************************)
(* The session when the roster has a member without an email               *)
(***************************************************************************)
InitNoEmail ==
    /\ env \in NoEmailDeployments
    /\ Idle
    /\ call = [fn |-> "script_run"]
    /\ ret = NoneObj

SpecNoEmail == InitNoEmail /\ [][Next]_vars

(***************************************************************************)
(* get_audit_stats applied to one audit log                                *)
(***************************************************************************)
StatsEntries ==
    {AuditEntry(t, m, <<>>, <<>>, <<>>, None, s, None, p) :
        t \in {"member_dashboard", "benefits_coach"}, m \in {EmailAl, EmailCy},
        s \in {"success", "failed"}, p \in {None, <<"Benefits Coach">>}}

InitStats ==
    /\ env = NoEnv
    /\ cache = EmptyCache
    /\ run = IdleRun
    /\ \E l \in SeqsUpTo(StatsEntries, MaxEntries) :
           /\ session_state = [FreshSession EXCEPT !.audit_log = l]
           /\ call = [fn |-> "get_audit_stats", audit_log |-> l]
    /\ ret = NoneObj

\* init_audit_log() finds the list; get_audit_log() copies it into a frame
ApplyGetAuditStats ==
    /\ ret = NoneObj
    /\ ret' = Some(get_audit_stats(session_state.audit_log))
    /\ UNCHANGED <<env, session_state, cache, run, call>>

SpecStats == InitStats /\ [][ApplyGetAuditStats]_vars

(***************************************************************************)
(* client.py: get_query_results, request by request                        *)
(* call holds the position of the call and what it has done so far:        *)
(*   pc       "create" before the createQuery request, "poll" in the       *)
(*            `while True` loop, "returned", "stopped" (st.stop()),        *)
(*            "raised" (an exception left the function)                    *)
(*   cached   @st.cache_data answered the call; the body did not run       *)
(*   creates  createQuery requests the call has sent                       *)
(*   polled   the last MaxPolls poll responses, odd the parity of their    *)
(*            number                                                       *)
(*   bar      the value of the progress bar, errors the st.error calls     *)
(***************************************************************************)
MaxPolls == 3

RESULT_STATUSES == <<"pending", "running", "compiled", "failed", "successful">>

\* RESULT_STATUSES.index(status) + 1: Python counts from 0
StatusIndex(status) == CHOOSE i \in 1..Len(RESULT_STATUSES) : RESULT_STATUSES[i] = status

\* what a request can be answered with: a body with data, an error envelope
\* (data: null, errors: [...]), or an exception of the transport or of r.json()
CreateResponses == {"query_id", "error_envelope", "exception"}

PollResponses == {RESULT_STATUSES[i] : i \in 1..Len(RESULT_STATUSES)}
                     \cup {"error_envelope", "exception"}

\* the session after ensure_connection() in a deployment with every token set
Connected ==
    ensure_connection([ss |-> FreshSession, cache |-> EmptyCache,
                       run |-> [IdleRun EXCEPT !.ended = "running"]],
                      FullDeployment, FALSE, None)

PollQueries == {DashboardQueries[1], DashboardQueries[2]}

\* a call get_query_results(payload, progress=progress) about to run its body
QueryCall(q, progress) ==
    [fn |-> "get_query_results",
     args |-> QueryArgs(Payload(q.metrics, q.group_by, <<>>), None, progress, NoneObj),
     pc |-> "create", cached |-> FALSE, creates |-> 0, polled |-> <<>>, odd |-> FALSE,
     bar |-> IF progress THEN Some(0) ELSE NoneObj, errors |-> 0]

\* if progress: progress_bar.progress(value, ...)
set_bar(c, value) == IF c.args.progress THEN [c EXCEPT !.bar = Some(value)] ELSE c

\* st.error(error_msg); st.stop()
stop_call(c) == [c EXCEPT !.pc = "stopped", !.errors = @ + 1]

\* a faulty variant: an error envelope is answered by submitting the query again
create_step_retry(c, response) ==
    IF response = "query_id" THEN [c EXCEPT !.creates = @ + 1, !.pc = "poll"]
    ELSE IF response = "error_envelope"
    THEN stop_call(set_bar([c EXCEPT !.creates = @ + 2], 80))
    ELSE [c EXCEPT !.creates = @ + 1, !.pc = "raised"]

\* json = submit_request(conn, payload, source=source) and the try block after it
create_step(c, response) ==
    IF response = "query_id" THEN [c EXCEPT !.creates = @ + 1, !.pc = "poll"]
    ELSE IF response = "error_envelope"
    THEN stop_call(set_bar([c EXCEPT !.creates = @ + 1], 80))
    ELSE [c EXCEPT !.creates = @ + 1, !.pc = "raised"]

\* the poll response joins the last MaxPolls ones
polled_with(c, response) ==
    [c EXCEPT !.odd = ~@,
              !.polled = IF Len(@) < MaxPolls THEN Append(@, response)
                         ELSE Append(Tail(@), response)]

\* a faulty variant: the loop ends on the first response that carries data
poll_step_eager(c, response) ==
    IF response = "exception" THEN [polled_with(c, response) EXCEPT !.pc = "raised"]
    ELSE IF response = "error_envelope" THEN stop_call(set_bar(polled_with(c, response), 80))
    ELSE IF response = "failed"
    THEN stop_call(set_bar(polled_with(c, response), StatusIndex(response) * 20))
    ELSE [set_bar(polled_with(c, response), 100) EXCEPT !.pc = "returned"]

\* one pass of the `while True` loop
poll_step(c, response) ==
    IF response = "exception" THEN [polled_with(c, response) EXCEPT !.pc = "raised"]
    ELSE IF response = "error_envelope" THEN stop_call(set_bar(polled_with(c, response), 80))
    ELSE IF response = "successful"
    THEN [set_bar(polled_with(c, response), 100) EXCEPT !.pc = "returned"]
    ELSE IF response = "failed"
    THEN stop_call(set_bar(polled_with(c, response), StatusIndex(response) * 20))
    ELSE set_bar(polled_with(c, response), StatusIndex(response) * 20)

\* the positions in which the call has ended
Ended == {"returned", "stopped", "raised"}

\* return data: the value is stored under the arguments of the call
store_result(c) ==
    IF c.pc = "returned"
    THEN [cache EXCEPT !.get_query_results =
              @ \cup {[args |-> c.args, auth |-> session_state.conn[1].auth_header]}]
    ELSE cache

\* what the caller receives: data when the call returned
result_of(c) == IF c.pc = "returned" THEN Some([status |-> "successful"]) ELSE NoneObj

InitPoll ==
    /\ env = FullDeployment
    /\ session_state = Connected.ss
    /\ cache = Connected.cache
    /\ run = IdleRun
    /\ \E q \in PollQueries, progress \in BOOLEAN : call = QueryCall(q, progress)
    /\ ret = NoneObj

\* the createQuery request and its response
SubmitCreate ==
    /\ call.fn = "get_query_results" /\ call.pc = "create"
    /\ \E response \in CreateResponses : call' = create_step(call, response)
    /\ ret' = NoneObj
    /\ UNCHANGED <<env, session_state, cache, run>>

\* one poll request and its response
PollResults ==
    /\ call.fn = "get_query_results" /\ call.pc = "poll"
    /\ \E response \in PollResponses : call' = poll_step(call, response)
    /\ ret' = result_of(call')
    /\ cache' = store_result(call')
    /\ UNCHANGED <<env, session_state, run>>

\* the user starts another call once the last one has ended; @st.cache_data
\* answers it when it holds a value for the arguments
CallGetQueryResults ==
    /\ call.fn = "get_query_results" /\ call.pc \in Ended
    /\ \E q \in PollQueries, progress \in BOOLEAN :
           call' = IF \E v \in cache.get_query_results : v.args = QueryCall(q, progress).args
                   THEN [QueryCall(q, progress) EXCEPT !.pc = "returned", !.cached = TRUE]
                   ELSE QueryCall(q, progress)
    /\ ret' = result_of(call')
    /\ UNCHANGED <<env, session_state, cache, run>>

NextPoll == SubmitCreate \/ PollResults \/ CallGetQueryResults

SpecPoll == InitPoll /\ [][NextPoll]_vars

\* the script thread runs the body to its end: each request is sent and answered
SpecPollFair == SpecPoll /\ WF_vars(SubmitCreate) /\ WF_vars(PollResults)

(***************************************************************************)
(* pages/04 Benefits Coach over several turns, with member switches        *)
(***************************************************************************)
MaxTurns == 2

InitCoach ==
    /\ env = FullDeployment
    /\ Idle
    /\ call = [fn |-> "script_run"]
    /\ ret = NoneObj

\* a script run of the page; a question is asked while the conversation and the
\* audit log are short and few queries have been sent
AskCoach ==
    \E m \in MetricsInputs :
        \E top \in {BenefitsCoachTop(env, m)}, i \in CoachInputs :
            /\ i.question => /\ Len(session_state.benefits_conversation) < MaxTurns
                             /\ Len(session_state.audit_log) <= MaxTurns
                             /\ run.attempts < MaxTurns
            /\ End(BenefitsCoach(top, env, i.question, i.calls, i.raised, i.outcome))

NextCoach == RunAuthentication \/ AskCoach

SpecCoach == InitCoach /\ [][NextCoach]_vars

(***************************************************************************)
(* Two browser sessions of one server process                              *)
(* st.session_state belongs to a session; the st.cache_data caches and the  *)
(* environment belong to the process.  session_state and run are those of   *)
(* the session whose script runs; call holds                                *)
(*   active    the number of that session                                   *)
(*   parked    session_state and run of the other session                   *)
(*   alone     for each session the caches as its own runs would have left  *)
(*             them had the other session not run                           *)
(*   switches  the number of times the running session has changed          *)
(*   seen      what the last run observed, and what it would have observed  *)
(*             over the caches of `alone`                                   *)
(***************************************************************************)
MaxSessionLog == 5
MaxSwitches == 3

\* session 1 is used by the techcorp members, session 2 by the retailplus member
SessionPicks(s) == IF s = 1 THEN {1, 2} ELSE {3}

SessionEmails(s) == {Roster[i].email : i \in SessionPicks(s)}

\* the world at the start of a script run of the active session over caches c
WorldOf(c) == [Begin EXCEPT !.cache = c]

\* the descriptor and the audit log the run left to its session, and the
\* credential of each request it sent
Observed(w) ==
    [conn |-> w.ss.conn, audit_log |-> w.ss.audit_log,
     auth |-> [i \in 1..Len(w.run.sent) |-> w.run.sent[i].auth]]

\* app.py run over the world w
authentication_script(w, e, pick) ==
    Authentication(require_roster(load_if_missing(ensure_connection(w, e, FALSE, None),
                                                  "successful"),
                                  get_member_roster),
                   pick)

\* pages/01 run over the world w
dashboard_script(w, e, k, outcome) ==
    MemberDashboard(require_email(ensure_member_context(
                        ensure_connection(w, e, FALSE, None), get_member_roster)),
                    k, outcome)

\* pages/05 run over the world w
audit_log_script(w, clear) == clear_button(ensure_member_context(w, get_member_roster), clear)

InitSessions ==
    /\ env = FullDeployment
    /\ Idle
    /\ call = [fn |-> "session_run", active |-> 1,
               parked |-> [ss |-> FreshSession, run |-> IdleRun],
               alone |-> <<EmptyCache, EmptyCache>>, switches |-> 0,
               seen |-> <<NoneObj, NoneObj>>]
    /\ ret = NoneObj

\* the state a run of the active session leaves: shared is the run over the
\* caches of the process, own the same run over the session's caches of `alone`
Leave(shared, own) ==
    /\ session_state' = shared.ss
    /\ cache' = shared.cache
    /\ run' = [shared.run EXCEPT !.ended = IF @ = "running" THEN "done" ELSE @]
    /\ call' = [call EXCEPT !.alone[call.active] = own.cache,
                            !.seen = <<Some(Observed(shared)), Some(Observed(own))>>]
    /\ UNCHANGED <<env, ret>>

\* the next script run is one of the other session
SwitchSession ==
    /\ call.switches < MaxSwitches
    /\ session_state' = call.parked.ss
    /\ run' = call.parked.run
    /\ call' = [call EXCEPT !.active = 3 - @, !.switches = @ + 1,
                            !.parked = [ss |-> session_state, run |-> run],
                            !.seen = <<NoneObj, NoneObj>>]
    /\ UNCHANGED <<env, cache, ret>>

\* the member of the session's tenant is picked once the selectbox is rendered
SessionAuthentication ==
    \E pick \in IF run.picker THEN SessionPicks(call.active)
                ELSE {default_index(session_state, get_member_roster)} :
        Leave(authentication_script(WorldOf(cache), env, pick),
              authentication_script(WorldOf(call.alone[call.active]), env, pick))

\* the dashboard is opened by a member of the session's tenant
SessionDashboard ==
    /\ session_state.selected_member_email \in SessionEmails(call.active)
    /\ Len(session_state.audit_log) < MaxSessionLog
    /\ Leave(dashboard_script(WorldOf(cache), env, 0, "successful"),
             dashboard_script(WorldOf(call.alone[call.active]), env, 0, "successful"))

SessionAuditLog ==
    \E clear \in BOOLEAN :
        Leave(audit_log_script(WorldOf(cache), clear),
              audit_log_script(WorldOf(call.alone[call.active]), clear))

NextSessions ==
    \/ SwitchSession
    \/ SessionAuthentication
    \/ SessionDashboard
    \/ SessionAuditLog

SpecSessions == InitSessions /\ [][NextSessions]_vars
(***************************************************************************)
(* Claims                                                                  *)
(***************************************************************************)
\* the canonical identity clause of the claims,
\* {{ Dimension('member__email') }} = '<email>'
Canonical(email) ==
    <<"{", "{", " ", "D", "i", "m", "e", "n", "s", "i", "o", "n", "(", "'",
      "m", "e", "m", "b", "e", "r", "_", "_", "e", "m", "a", "i", "l",
      "'", ")", " ", "}", "}", " ", "=", " ", "'">> \o email \o <<"'">>

\* the data queries among the requests of the last run
DataQueries == {i \in 1..Len(run.sent) : IsDataQuery(run.sent[i])}

\* the company of each email of the roster, by get_company_from_email
CompanyOf == {<<m, get_company_from_email(m)>> : m \in MemberEmails}

Company(email) == (CHOOSE t \in CompanyOf : t[1] = email)[2]

\* "Bearer " and the token get_company_token returns, by deployment and email
TenantAuth ==
    {<<e, m, BearerPrefix \o get_company_token(e, get_company_from_email(m)).token>> :
        e \in Deployments, m \in MemberEmails}

ExpectedAuth(e, email) == (CHOOSE t \in TenantAuth : t[1] = e /\ t[2] = email)[3]

\* C1 as stated: every data query that reaches the backend, by whichever page,
\* holds in its where list the canonical identity clause of the principal it
\* was made for.
C1_EveryQueryFiltered ==
    \A i \in DataQueries :
        \E j \in 1..Len(run.sent[i].where) :
            run.sent[i].where[j] = Canonical(run.sent[i].principal)

\* C2 as stated: every data query sent through get_query_results for principal P
\* carries the Authorization header "Bearer " + the token of P's company.
C2_TenantCredential ==
    \A i \in DataQueries :
        run.sent[i].via = "graphql" =>
            run.sent[i].auth = ExpectedAuth(env, run.sent[i].principal)

\* the step is a run whose ensure_connection call returned, made for a member of
\* another company than the member the stored descriptor was parsed for
SwitchedTenant ==
    /\ run'.ec = "returned"
    /\ session_state.conn # NoneObj
    /\ ~Falsy(run.conn_for)
    /\ ~Falsy(session_state.selected_member_email)
    /\ Company(run.conn_for) # Company(session_state.selected_member_email)

\* C3 as stated: after a switch to a member of another company the next
\* ensure_connection call that returns has parsed a descriptor for the new member;
\* its credential differs from the one before when the two companies' tokens
\* differ; and no query of the run is sent with a descriptor parsed for a member
\* of another company than its principal's.
C3_SwitchRebuilds ==
    [][SwitchedTenant =>
          /\ run'.conn_for = session_state.selected_member_email
          /\ ExpectedAuth(env, run.conn_for)
                 # ExpectedAuth(env, session_state.selected_member_email)
             => session_state'.conn[1].auth_header # session_state.conn[1].auth_header
          /\ \A i \in 1..Len(run'.sent) :
                 (IsDataQuery(run'.sent[i]) /\ run'.sent[i].via = "graphql")
                 => Company(run'.sent[i].built_for) = Company(run'.sent[i].principal)
      ]_vars

\* the clause strings of an enforcer's candidate or result: the page's list
\* holds strings, the builder's lists hold objects with an sql field
Clauses(c, lst) ==
    IF c.fn = "where_clauses" THEN lst ELSE [i \in 1..Len(lst) |-> GetSql(lst[i])]

CountCanonical(c, lst) ==
    Cardinality({i \in 1..Len(lst) : Clauses(c, lst)[i] = Canonical(c.email)})

CandidateList(c) ==
    IF c.fn = "where_clauses"
    THEN (IF c.arg.kind = "none" \/ c.arg.v = <<>> THEN <<>>
          ELSE IF c.arg.kind = "list" THEN c.arg.v ELSE <<c.arg.v>>)
    ELSE (IF c.arg = NoneObj THEN <<>> ELSE c.arg[1])

\* C4 as stated: the enforced list holds the canonical clause of the
\* principal exactly once, whatever the candidate list held.
C4_ExactlyOne ==
    ret # NoneObj => CountCanonical(call, ret[1].once) = 1

\* C4 as amended: the enforced list holds the canonical clause at least
\* once; it holds it exactly once when the candidate held it at most once,
\* and as many times as the candidate when the candidate held it more often.
C4_AtLeastOne ==
    ret # NoneObj =>
        LET had == CountCanonical(call, CandidateList(call))
            has == CountCanonical(call, ret[1].once)
        IN has = (IF had = 0 THEN 1 ELSE had)

\* an enforcer has run on a candidate that held only another email's clause
C4_Witness ==
    /\ ret # NoneObj
    /\ Len(CandidateList(call)) = 1
    /\ Clauses(call, CandidateList(call))[1] = Canonical(EmailXCy)
    /\ call.email = EmailCy
    /\ Len(ret[1].once) = 2

\* C5: enforcing an enforced list again returns it element for element.
C5_Idempotent ==
    ret # NoneObj => ret[1].twice = ret[1].once

\* the candidate lacked the clause, so the first enforcement changed it
C5_Witness ==
    /\ ret # NoneObj
    /\ CountCanonical(call, CandidateList(call)) = 0
    /\ Len(ret[1].once) = Len(CandidateList(call)) + 1
    /\ ret[1].twice = ret[1].once

\* the response of the model proposed no filter: where absent, null or []
ProposedNone(q) == q.proposed.kind = "none" \/ q.proposed.v = <<>>

\* C6: a request the natural-language page sends for a response that proposed
\* no filter holds exactly one clause, the canonical clause of the current
\* principal.
C6_OnlyCanonical ==
    \A i \in DataQueries :
        (run.sent[i].path = "basic_llm" /\ ProposedNone(run.sent[i]))
        => /\ run.sent[i].principal = session_state.selected_member_email
           /\ run.sent[i].where = <<Canonical(session_state.selected_member_email)>>

\* C6 witness: the page sent such a request for a response whose where is []
C6_Witness ==
    /\ session_state.selected_member_email = EmailCy
    /\ \E i \in DataQueries :
           /\ run.sent[i].path = "basic_llm"
           /\ run.sent[i].proposed = [kind |-> "list", v |-> <<>>]
           /\ run.sent[i].where = <<Canonical(EmailCy)>>

\* the number of data queries among the first i requests of the run
Rank(i) == Cardinality({j \in DataQueries : j <= i})

\* C7 as stated: the audit log holds one entry for each query attempt made since
\* it was last empty, the attempts of the last run at its end and in their order,
\* and total_queries counts them.
C7_OneEntryPerAttempt ==
    /\ Len(session_state.audit_log) = run.attempts
    /\ get_audit_stats(session_state.audit_log).total_queries = run.attempts
    /\ \A i \in DataQueries :
           run.sent[i].entry
               = Len(session_state.audit_log) - Cardinality(DataQueries) + Rank(i)

\* C8 as stated: the scan returns exactly the entries whose filters do not
\* hold the canonical clause of the entry's own member_email.
C8_ViolationIffNoCanonical ==
    ret # NoneObj =>
        ret[1] = SelectSeq(session_state.audit_log,
                     LAMBDA e : ~\E i \in 1..Len(e.filters_applied) :
                                     e.filters_applied[i] = Canonical(e.member_email))

\* C9 as stated: a query the backend answered with an error envelope or with
\* status failed is recorded by an audit entry with status "failed" and an error
\* message.
C9_BackendFailureLogged ==
    \A i \in DataQueries :
        run.sent[i].outcome \in StopOutcomes
        => /\ run.sent[i].entry \in 1..Len(session_state.audit_log)
           /\ session_state.audit_log[run.sent[i].entry].status = "failed"
           /\ session_state.audit_log[run.sent[i].entry].error_message # None

\* C10: for a company without a token of its own (absent, or empty once
\* stripped) and for "default", the stripped DBT_TOKEN is returned and a
\* warning is logged; the warning is logged in that case only.
OwnTokenKey(company) ==
    CASE Lower(company) = CoTechcorp -> "DBT_TECHCORP_TOKEN"
      [] Lower(company) = CoRetailplus -> "DBT_RETAILPLUS_TOKEN"
      [] Lower(company) = CoManufacturingco -> "DBT_MANUFACTURINGCO_TOKEN"
      [] OTHER -> "none"

HasOwnToken(e, company) ==
    /\ OwnTokenKey(company) # "none"
    /\ e[OwnTokenKey(company)] # None
    /\ \E i \in 1..Len(e[OwnTokenKey(company)]) : e[OwnTokenKey(company)][i] # " "

Warned(r) == \E i \in 1..Len(r.logs) : r.logs[i].level = "WARNING"

C10_FallbackToken ==
    ret # NoneObj =>
        /\ ~HasOwnToken(env, call.company) =>
               /\ ret[1].token = (IF env.DBT_TOKEN = None THEN EmptyStr ELSE Strip(env.DBT_TOKEN))
               /\ Warned(ret[1])
        /\ Warned(ret[1]) => ~HasOwnToken(env, call.company)

\* the lookup has fallen back for a company whose own token is whitespace
C10_Witness ==
    /\ ret # NoneObj
    /\ env.DBT_TECHCORP_TOKEN = TokBlank
    /\ env.DBT_TOKEN = TokD
    /\ call.company = CoTechcorpMixed
    /\ ret[1].token = TokD
    /\ Warned(ret[1])

TenantTokenKeys == {"DBT_TECHCORP_TOKEN", "DBT_RETAILPLUS_TOKEN", "DBT_MANUFACTURINGCO_TOKEN"}

\* the tokens configured under the keys of the other tenants
ForeignTokens(e, company) ==
    {Strip(e[k]) : k \in {x \in TenantTokenKeys \ {OwnTokenKey(company)} : e[x] # None}}
        \ {EmptyStr}

\* the last step was an ensure_connection call that parsed a descriptor and returned it
BuiltDescriptor ==
    /\ call.fn = "ensure_connection"
    /\ call.member_email # None
    /\ run.parses # "none"
    /\ ret[1].conn # NoneObj

\* C11 as stated: get_company_token never returns a token configured under
\* another tenant's key, and a descriptor ensure_connection builds for a
\* principal never carries one.
C11_NoForeignToken ==
    /\ \A company \in TokenCompanies :
           get_company_token(env, company).token \notin ForeignTokens(env, company)
    /\ BuiltDescriptor =>
           \A tok \in ForeignTokens(env, get_company_from_email(call.member_email)) :
               ret[1].conn[1].auth_header # BearerPrefix \o tok


Blank(v) == v = None \/ Strip(v) = EmptyStr

\* the deployments and principals for which no credential is configured: no
\* JDBC_URL secret, no token under the key of the principal's tenant, no DBT_TOKEN
NoCredential ==
    {p : p \in {<<e, m>> \in Deployments \X MemberEmails :
                   /\ e.JDBC_URL = None
                   /\ ~HasOwnToken(e, get_company_from_email(m))
                   /\ Blank(e.DBT_TOKEN)}}

SessionConnection(ss) == <<ss.conn, ss.jdbc_url, ss._conn_member_email>>

\* C12: a script run that calls ensure_connection for a principal without any
\* configured credential ends in ensure_connection's terminal error, leaves conn,
\* jdbc_url and _conn_member_email of the session as they were, and sends no
\* request to the backend.
C12_NoCredentialStops ==
    [][(<<env, session_state.selected_member_email>> \in NoCredential /\ run'.ec # "none")
          => /\ run'.ec = "stopped"
             /\ run'.ended = "stop"
             /\ SessionConnection(session_state') = SessionConnection(session_state)
             /\ run'.sent = <<>>]_vars

\* a run stopped for lack of a credential while the session holds a descriptor built
\* earlier for another principal
C12_Witness ==
    /\ <<env, session_state.selected_member_email>> \in NoCredential
    /\ run.ec = "stopped"
    /\ run.sent = <<>>
    /\ session_state.conn # NoneObj

\* the last step was an ensure_connection call that returned a descriptor
Returned ==
    /\ call.fn = "ensure_connection"
    /\ ret # NoneObj
    /\ ret[1].conn # NoneObj

\* the next step is an ensure_connection call for the same principal
CalledAgain ==
    /\ Returned
    /\ call'.fn = "ensure_connection"
    /\ call'.member_email = call.member_email

\* the call returned the stored descriptor it found, parsed nothing and left the
\* cache of get_connection_attributes alone
Reused ==
    /\ ret'[1].conn = ret[1].conn
    /\ ret'[1].conn = session_state'.conn
    /\ session_state'.conn = session_state.conn
    /\ run'.parses = "none"
    /\ cache' = cache

ExactDomain(email, domain) ==
    /\ email # None
    /\ \E i \in 1..Len(email) :
           /\ email[i] = "@"
           /\ \A j \in (i + 1)..Len(email) : email[j] # "@"
           /\ Len(email) - i = Len(domain)
           /\ \A j \in 1..Len(domain) : LowerChar(email[i + j]) = domain[j]

TenantOfDomain ==
    {<<DomainTechcorp, CoTechcorp>>, <<DomainRetailplus, CoRetailplus>>,
     <<DomainManufacturingco, CoManufacturingco>>}

\* C14: get_company_from_email returns a value for every input; it returns a
\* domain's tenant when the part of the email after its last "@" equals that
\* configured domain in any letter case, and "default" for every other input
\* (None, "", no "@", an unknown domain).
C14_CompanyFromEmail ==
    ret # NoneObj =>
        /\ ret[1] \in {CoDefault, CoTechcorp, CoRetailplus, CoManufacturingco}
        /\ \A p \in TenantOfDomain : ExactDomain(call.email, p[1]) <=> ret[1] = p[2]

\* an email written in another letter case than its configured domain got the
\* domain's tenant
C14_Witness ==
    /\ ret # NoneObj
    /\ ret[1] = CoRetailplus
    /\ ExactDomain(call.email, DomainRetailplus)
    /\ Lower(call.email) # call.email

\* the service tokens of a deployment: those of the environment and the one a
\* JDBC_URL secret carries
ServiceTokens(e) ==
    ({Strip(e[k]) : k \in {x \in TenantTokenKeys \cup {"DBT_TOKEN"} : e[x] # None}}
         \ {EmptyStr})
        \cup (IF e.JDBC_URL = SecretUrl THEN {TokS}
              ELSE IF e.JDBC_URL = TechcorpSecretUrl THEN {TokT} ELSE {})

\* C15 as stated: no log event of an ensure_connection call (resolve_jdbc_url,
\* get_connection_attributes) holds a service token in clear.
C15_TokensMasked ==
    (call.fn = "ensure_connection" /\ ret # NoneObj) =>
        \A i \in 1..Len(ret[1].logs) :
            \A j \in 1..Len(ret[1].logs[i].args) :
                \A tok \in ServiceTokens(env) : ~IsSubstring(tok, ret[1].logs[i].args[j])

IsPrefix(s, t) == Len(s) <= Len(t) /\ SubSeq(t, 1, Len(s)) = s

\* the step is a run of the Audit Log page with the 'Clear Audit Log' button pressed
ClearPressed == End(AuditLog(TRUE))

\* C16: in every step the audit log before the step is a prefix of the log after
\* it, except in a run of the Audit Log page with the 'Clear Audit Log' button
\* pressed, which leaves the log empty.
C16_AppendOnly ==
    [][\/ IsPrefix(session_state.audit_log, session_state'.audit_log)
       \/ (session_state'.audit_log = <<>> /\ ClearPressed)]_vars

\* a log that grew in two steps, by two calls of log_query_execution
C16_Witness ==
    /\ call.fn = "log_query_execution"
    /\ run.query_runs = 0
    /\ Len(session_state.audit_log) = 2

\* an email that is missing (None, or nan from the roster file) or empty
NoEmail(email) == email \in {None, NaN, EmptyStr}

\* C17 as stated: for a principal without an email no page submits a data query
\* to the backend and no audit entry is appended.
C17_NoEmailNoQuery ==
    /\ \A i \in DataQueries : ~NoEmail(run.sent[i].principal)
    /\ \A i \in 1..Len(session_state.audit_log) :
           ~NoEmail(session_state.audit_log[i].member_email)

\* the result is the candidate list followed by one element, the canonical clause
AppendedCanonical(c, cand, res) ==
    /\ Len(res) = Len(cand) + 1
    /\ SubSeq(res, 1, Len(cand)) = cand
    /\ Clauses(c, res)[Len(res)] = Canonical(c.email)

\* C19: enforcement only adds.  When the candidate list lacks the canonical
\* clause the result is the candidate list, element for element and in its
\* order, followed by the canonical clause; when it holds the clause the result
\* is the candidate list.  Clauses for other emails stay.
C19_OnlyAdds ==
    ret # NoneObj =>
        IF CountCanonical(call, CandidateList(call)) = 0
        THEN AppendedCanonical(call, CandidateList(call), ret[1].once)
        ELSE ret[1].once = CandidateList(call)

\* a two-clause candidate that starts with another email's identity clause came
\* back with the principal's clause appended
C19_Witness ==
    /\ ret # NoneObj
    /\ call.email = EmailCy
    /\ Len(CandidateList(call)) = 2
    /\ Clauses(call, CandidateList(call))[1] = Canonical(EmailXCy)
    /\ AppendedCanonical(call, CandidateList(call), ret[1].once)

ClauseSet(c, lst) == {Clauses(c, lst)[i] : i \in 1..Len(lst)}

\* the clauses of the enforced list that the candidate list did not hold
AddedClauses(c, res) == ClauseSet(c, res) \ ClauseSet(c, CandidateList(c))

\* the calls of the same enforcer for the same principal, with any supplied input
SamePrincipal(c) == {c2 \in EnforceCalls : c2.fn = c.fn /\ c2.email = c.email}

\* C18: the identity clause enforcement adds depends on the principal's email
\* only.  Whatever input is supplied for the same principal, the enforced list
\* holds the canonical clause of the principal's email, the same string in every
\* run, and enforcement adds no other clause, so none comes from the input.
C18_ClauseOfPrincipalOnly ==
    ret # NoneObj =>
        /\ Canonical(call.email) \in ClauseSet(call, ret[1].once)
        /\ \A c2 \in SamePrincipal(call) :
               /\ Canonical(call.email) \in ClauseSet(c2, Enforce(c2, c2.arg))
               /\ AddedClauses(c2, Enforce(c2, c2.arg)) \subseteq {Canonical(call.email)}
               /\ AddedClauses(c2, Enforce(c2, c2.arg)) \subseteq ClauseSet(call, ret[1].once)

\* the model proposed, as a bare string, the identity clause of another email, and
\* the list sent holds the principal's own clause after it
C18_Witness ==
    /\ ret # NoneObj
    /\ call.fn = "where_clauses"
    /\ call.email = EmailXCy
    /\ call.arg = [kind |-> "str", v |-> Canonical(EmailCy)]
    /\ ret[1].once = <<Canonical(EmailCy), Canonical(EmailXCy)>>

\* the query_metrics calls of the last run that the agent executed through MCP
CoachQueries == {i \in DataQueries : run.sent[i].via = "mcp"}

\* an audit entry of the Benefits Coach for the principal and the where filters
\* of a request
RecordedBy(entry, q) ==
    /\ entry.query_type = "benefits_coach"
    /\ entry.page = <<"Benefits Coach">>
    /\ entry.member_email = q.principal
    /\ entry.filters_applied = q.where

\* C20 as stated: every query_metrics call the Benefits Coach agent executed in
\* the last run, also in a run that ended with an exception, is recorded in the
\* audit log with the principal's email and the where filters the agent sent.
C20_ToolCallsAudited ==
    \A i \in CoachQueries :
        \E j \in 1..Len(session_state.audit_log) :
            RecordedBy(session_state.audit_log[j], run.sent[i])

\* the number of entries of the log whose field has the value
RECURSIVE CountField(_, _, _)
CountField(audit_log, field, v) ==
    IF audit_log = <<>> THEN 0
    ELSE (IF Head(audit_log)[field] = v THEN 1 ELSE 0) + CountField(Tail(audit_log), field, v)

\* the sum of the counts of a dict of counts
RECURSIVE SumCounts(_)
SumCounts(d) ==
    IF d = {} THEN 0
    ELSE (CHOOSE p \in d : TRUE)[2] + SumCounts(d \ {CHOOSE p \in d : TRUE})

\* the values a field takes in the log
FieldValues(audit_log, field) == {audit_log[i][field] : i \in 1..Len(audit_log)}

\* C21: get_audit_stats leaves the log as it was; total_queries is the number of
\* entries, unique_members the number of distinct member_email values,
\* queries_by_type and queries_by_page count the entries of each type and page
\* and each sum to total_queries, success_rate is 100 times the number of
\* entries with status "success" over total_queries, and the empty log gives
\* 0, 0, 0.0 and empty maps.
C21_AuditStats ==
    ret # NoneObj =>
        /\ session_state.audit_log = call.audit_log
        /\ ret[1].total_queries = Len(call.audit_log)
        /\ ret[1].unique_members = Cardinality(FieldValues(call.audit_log, "member_email"))
        /\ \A p \in ret[1].queries_by_type :
               p[2] = CountField(call.audit_log, "query_type", p[1])
        /\ \A p \in ret[1].queries_by_page : p[2] = CountField(call.audit_log, "page", p[1])
        /\ SumCounts(ret[1].queries_by_type) = ret[1].total_queries
        /\ SumCounts(ret[1].queries_by_page) = ret[1].total_queries
        /\ ret[1].success_rate.num * (IF call.audit_log = <<>> THEN 1 ELSE Len(call.audit_log))
               = 100 * CountField(call.audit_log, "status", "success") * ret[1].success_rate.den
        /\ call.audit_log = <<>> =>
               ret[1] = [total_queries |-> 0, unique_members |-> 0,
                         success_rate |-> Ratio(0, 1),
                         queries_by_type |-> {}, queries_by_page |-> {}]

\* the statistics of a log of two entries of one member, one of them failed
C21_Witness ==
    /\ ret # NoneObj
    /\ Len(call.audit_log) = 2
    /\ ret[1].unique_members = 1
    /\ ret[1].success_rate = Ratio(100, 2)
    /\ Cardinality(ret[1].queries_by_page) = 2

\* C22 as stated: after an ensure_connection call has returned or stopped, the
\* stored descriptor is the one parsed from the stored jdbc_url, the stored
\* jdbc_url is the URL resolved for _conn_member_email, and a descriptor the
\* call returns was parsed for the principal of the call.
C22_ConnectionConsistent ==
    (call.fn = "ensure_connection" /\ session_state.conn # NoneObj) =>
        /\ session_state.conn = get_connection_attributes(session_state.jdbc_url).conn
        /\ session_state.jdbc_url
               = resolve_jdbc_url(env, session_state._conn_member_email).url
        /\ ret[1].conn # NoneObj => run.conn_for = call.member_email

\* C23 as stated: each query attempt of the run has one audit entry of its own,
\* and the log already held that entry when the request went out to the backend.
C23_EntryAtInvocation ==
    /\ \A i \in DataQueries : run.sent[i].entry \in 1..run.sent[i].logged
    /\ \A i, j \in DataQueries : i # j => run.sent[i].entry # run.sent[j].entry

\* the call of this step parsed a URL again: the descriptor was rebuilt
Rebuilt == call'.fn = "ensure_connection" /\ run'.parses # "none"

\* the tenant of the principal of the call is not the tenant the stored
\* descriptor was built for
TenantChanged ==
    get_company_from_email(call'.member_email) # get_company_from_email(run.conn_for)

\* C24 as stated: a call rebuilds the descriptor only with force_refresh, without
\* a stored descriptor, or for a principal of another tenant than the one the
\* stored descriptor was built for.
C24_RebuildOnlyOnTenantSwitch ==
    [][Rebuilt => \/ call'.force_refresh
                  \/ session_state.conn = NoneObj
                  \/ TenantChanged]_vars

\* the last poll response the call received
LastPolled == call.polled[Len(call.polled)]

\* C25: a call whose body ran has returned only after a poll response
\* "successful" and a call answered from the cache returns a value stored by such
\* a call; after a response pending, running or compiled the call is still
\* polling, has surfaced no error and has left the audit log alone; a call
\* stopped in the loop has received "failed" or an error envelope.
C25_OnlyTerminalStatusEnds ==
    call.fn = "get_query_results" =>
        /\ (call.pc = "returned" /\ ~call.cached)
               => call.polled # <<>> /\ LastPolled = "successful"
        /\ (call.pc = "returned" /\ call.cached)
               => \E v \in cache.get_query_results : v.args = call.args
        /\ (ret # NoneObj) = (call.pc = "returned")
        /\ (call.polled # <<>> /\ LastPolled \in {"pending", "running", "compiled"})
               => /\ call.pc = "poll"
                  /\ call.errors = 0
                  /\ session_state.audit_log = <<>>
        /\ (call.pc = "stopped" /\ call.polled # <<>>)
               => LastPolled \in {"failed", "error_envelope"}

\* C25 witness: a call that returned after pending, compiled and successful
C25_Witness ==
    /\ call.fn = "get_query_results" /\ call.pc = "returned" /\ ~call.cached
    /\ call.polled = <<"pending", "compiled", "successful">>
    /\ ret # NoneObj

\* C26 as stated: every call of get_query_results ends.
C26_EveryCallTerminates ==
    (call.fn = "get_query_results" /\ call.pc \in {"create", "poll"})
        ~> (call.pc \in Ended)

\* C27: a call whose body ran has sent one createQuery request once it is past
\* the request, whether it polls, returned, stopped or raised, and none before;
\* a call answered from the cache has sent none.
C27_OneCreatePerCall ==
    call.fn = "get_query_results" =>
        call.creates = IF call.pc = "create" \/ call.cached THEN 0 ELSE 1

\* C27 witness: a call that sent its request and stopped on a poll response
\* "failed"
C27_Witness ==
    /\ call.fn = "get_query_results" /\ call.pc = "stopped" /\ call.creates = 1
    /\ call.polled # <<>> /\ LastPolled = "failed"

\* the responses the caches of get_query_results and run_member_query hold
CachedResponses(c) == c.get_query_results \cup c.run_member_query

\* C28 as stated: a run in which ensure_connection rebuilt the descriptor leaves
\* no cached response that was fetched with another credential than the one of
\* the new descriptor.
C28_RebuildInvalidatesResponses ==
    [][(run'.parses # "none" /\ run'.ec = "returned")
           => \A r \in CachedResponses(cache') :
                  r.auth = session_state'.conn[1].auth_header]_vars

\* the filters of the request an audit entry records: the where list of the
\* payload, or the where argument of the tool call as a list
AttemptedFilters(request) ==
    IF request.via = "mcp" THEN where_filters_of(request.proposed) ELSE request.where

\* entry number k of the log after the step records a request of the run with the
\* request's filters and principal
RecordsRequest(k) ==
    \E i \in 1..Len(run'.sent) :
        /\ IsDataQuery(run'.sent[i]) /\ run'.sent[i].entry = k
        /\ session_state'.audit_log[k].filters_applied = AttemptedFilters(run'.sent[i])
        /\ session_state'.audit_log[k].member_email = run'.sent[i].principal

\* C29 as stated: every entry a step appends records a request of that run with
\* the request's filters and the principal it was issued for, or repeats an entry
\* the log already held.
C29_EntryMatchesRequest ==
    [][\A k \in (Len(session_state.audit_log) + 1)..Len(session_state'.audit_log) :
           \/ RecordsRequest(k)
           \/ \E j \in 1..Len(session_state.audit_log) :
                  session_state.audit_log[j] = session_state'.audit_log[k]]_vars

\* C30: a script run of one session leaves the descriptor, the audit log and the
\* rest of the state of the other session as they were, and the descriptor, the
\* audit log and the credentials of the requests of the running session are what
\* they would be had the other session never run.
C30_SessionsIsolated ==
    [][(call.fn = "session_run" /\ call'.active = call.active)
           => /\ call'.parked = call.parked
              /\ call'.seen[1] = call'.seen[2]]_vars

\* C30 witness: the retailplus session has run its dashboard after the techcorp
\* session ran its own, switched from al to bo and had its descriptor rebuilt
C30_Witness ==
    /\ call.fn = "session_run" /\ call.active = 2 /\ call.seen[1] # NoneObj
    /\ session_state.selected_member_email = EmailCy
    /\ Len(session_state.audit_log) = Len(DashboardQueries)
    /\ call.parked.ss._conn_member_email = EmailBo
    /\ call.parked.ss.audit_log # <<>>
    /\ \E r \in cache.run_member_query, s \in cache.run_member_query : r.auth # s.auth
====
